---- MODULE Spec2Model ----
(***************************************************************************)
(* Model of the artist dapp front end.                                     *)
(*                                                                         *)
(* Part 1: the mint flow of ProjectView                                    *)
(* (src/src/components/projects/ProjectsApp.tsx, lines 275-920): the       *)
(* component state, the wagmi hooks it reads (useAccount, useChainId,      *)
(* useSwitchChain, useReadContract, useWriteContract,                      *)
(* useWaitForTransactionReceipt), handleMint, the three effects and the    *)
(* amount controls.                                                        *)
(*                                                                         *)
(* Part 2: the project form of the artist dashboard, Home                  *)
(* (src/unnamed/part_001): validateForm, the two availability checks,      *)
(* handleSubmit and handleInputChange.                                     *)
(*                                                                         *)
(* Part 3: the view router ProjectsApp (ProjectsApp.tsx, lines 11-163).    *)
(*                                                                         *)
(* Part 4: the functions on texts applied on their own (createSlug,        *)
(* decodeSlug, validateMobile).                                            *)
(*                                                                         *)
(* Part 5: the session of the dashboard (checkAuth, handleLogin,           *)
(* handleRegister, handleLogout), its login form and its project list      *)
(* with the tabs and the pages.                                            *)
(*                                                                         *)
(* The wallet provider, the chain and the backend are the environment:     *)
(* their answers are separate actions that may come in any order.  Each    *)
(* part has its own specification; the variables of the other parts stay   *)
(* at their initial values in it.                                          *)
(***************************************************************************)
EXTENDS Integers, Sequences, FiniteSets, TLC

\* ------------------------------------------------------------------ bounds
MaxClicks == 2        \* mint requests followed in one behaviour
MaxAmount == 2        \* largest mintAmount followed
MaxFetch == 1         \* outstanding fetchProjectData requests followed
MaxSubmits == 2       \* clicks on 'Create Project' followed in one behaviour
MaxInputs == 1        \* changes of the form's inputs followed after the first fill
MaxApproved == 3      \* approved projects of an artist followed
MaxPending == 4       \* pending projects of an artist followed

\* WeiPerEther stands for viem's 10^18 (formatEther), scaled down so that the
\* totals stay small; every price of the model is a whole multiple of it.
WeiPerEther == 10

\* ------------------------------------------------------------ value spaces
None == <<>>
Some(v) == <<v>>
IsSome(o) == o # <<>>
The(o) == o[1]

\* Math.max without the floor: the second argument as it is
Max_SecondOnly(a, b) == b

Max(a, b) == IF a >= b THEN a ELSE b

\* polygon.id against any other chain the wallet may be on; the chain changes
\* when the wallet grants a switch request
Polygon == "polygon"
Chains == {"polygon", "mainnet"}

NoAddress == ""
WalletAddr == "0xWa11e7"
ContractAddr == "0xC0n7rac7"

\* JS truthiness of a string | undefined
Truthy(s) == s # ""

\* interface Project, restricted to the fields ProjectView's mint flow reads
NullProject ==
    [status |-> "null", contractAddress |-> "", mintingEnabled |-> FALSE, mintPrice |-> 0]

\* what GET /api/public/projects/:artist/:project may answer; status changes
\* are server-driven, so every refresh may bring any of them
ProjectSamples ==
    { [status |-> "approved", contractAddress |-> ContractAddr, mintingEnabled |-> TRUE,  mintPrice |-> 2],
      [status |-> "approved", contractAddress |-> ContractAddr, mintingEnabled |-> FALSE, mintPrice |-> 2],
      [status |-> "approved", contractAddress |-> "",           mintingEnabled |-> TRUE,  mintPrice |-> 2],
      [status |-> "pending",  contractAddress |-> ContractAddr, mintingEnabled |-> TRUE,  mintPrice |-> 2] }

\* publicSaleCost of the deployed contract, in wei
OnChainPrices == {3 * WeiPerEther}

\* interface Message
Msg(text, type) == [text |-> text, type |-> type]
NoMessage == Msg("", "")

\* Error texts a wallet provider answers a rejected write with, as word
\* sequences; <<>> is an error whose message is empty.
WalletErrors ==
    { <<"User", "rejected", "the", "request">>,
      <<"Signature", "User", "denied">>,
      <<"insufficient", "funds", "for", "gas">>,
      <<"exceeds", "balance">>,
      <<"User", "rejected", "insufficient", "funds">>,
      <<"execution", "reverted">>,
      <<>> }

\* String.prototype.includes, on word sequences
Includes(s, pat) ==
    \E i \in 1..(Len(s) - Len(pat) + 1) : SubSeq(s, i, i + Len(pat) - 1) = pat

\* ---------------------------------------------------------------- state
VARIABLES
    \* useState of ProjectView
    project, loading, minting, mintAmount, message, txHash,
    \* useAccount, useChainId
    isConnected, walletAddress, chainId,
    \* useReadContract(publicSaleCost).data and the contract's value
    basePrice, publicSaleCost,
    \* useWriteContract: data, error (its message), and the requests the wallet
    \* holds, each as writeContract was given it
    hash, writeContractError, pendingWrites,
    \* the receipt query cache behind useWaitForTransactionReceipt, per hash
    receipt,
    \* handleMint invocations suspended at the await of lines 503-504, each
    \* with the values its closure captured at the click
    mintCalls,
    \* outstanding fetchProjectData requests
    fetchPending,
    \* history: mint requests made, writeContract calls made
    mintClicks, writeCalls

mintVars ==
    << project, loading, minting, mintAmount, message, txHash,
       isConnected, walletAddress, chainId, basePrice, publicSaleCost,
       hash, writeContractError, pendingWrites, receipt,
       mintCalls, fetchPending, mintClicks, writeCalls >>

VARIABLES
    \* useState of Home (part_001, lines 72-73, 87-90, 153-161): the project form
    submitting, homeMessage, formData,
    projectNameAvailable, projectSymbolAvailable,
    checkingProjectName, checkingProjectSymbol,
    \* the runs of handleSubmit, one per click, each with the values its
    \* closure captured and the place it has reached
    submitCalls,
    \* history: clicks on 'Create Project', changes of the inputs
    submitClicks, inputChanges

formVars ==
    << submitting, homeMessage, formData, projectNameAvailable, projectSymbolAvailable,
       checkingProjectName, checkingProjectSymbol, submitCalls, submitClicks,
       inputChanges >>

VARIABLES
    \* useState of Home, lines 69-71: the session
    artistData, isAuthenticated, homeLoading,
    \* localStorage item 'artistData'; the artistId parameter of the address
    storedArtistData, urlArtistId,
    \* whether the mount effect of lines 259-311 has run; the request of
    \* fetchArtistData; the request of handleLogin or handleRegister
    homeMounted, artistFetch, loginRequest,
    \* useState loginMessage (line 86): its text, "" for null
    loginMessage,
    \* history: times the page was opened again
    reloads

authVars ==
    << artistData, isAuthenticated, homeLoading, storedArtistData, urlArtistId,
       homeMounted, artistFetch, loginRequest, loginMessage, reloads >>

VARIABLES
    \* ProjectsApp: useState view (line 94), window.location.pathname
    view, pathname,
    \* useState projects and loading (lines 95-96); whether the mount effect
    \* has run; the requests of fetchProjects not yet answered
    projects, galleryLoading, appMounted, projectsFetch,
    \* history: clicks on a project of the gallery
    projectClicks

routeVars ==
    << view, pathname, projects, galleryLoading, appMounted, projectsFetch,
       projectClicks >>

VARIABLES
    \* useState of Home, lines 83, 93-98: the login form and its mode
    loginFormData, isLogin,
    \* history: clicks on the form's submit button (line 980), requests sent
    \* to /api/artists/login and /api/artists/register
    loginClicks, loginRequests

loginVars == << loginFormData, isLogin, loginClicks, loginRequests >>

VARIABLES
    \* useState of Home, lines 74, 77-78: the artist's projects and their paging
    userProjects, activeTab, currentPage,
    \* the requests of fetchUserProjects not yet answered, by the artist id
    \* of their address (requests for one artist are followed as one), and
    \* the timers of lines 727 and 769 not yet fired
    projectsFetches, loginTimers

listVars == << userProjects, activeTab, currentPage, projectsFetches, loginTimers >>

VARIABLES
    \* a text, the functions applied to it one after the other with their
    \* results, and the message a validator gave for it
    callInput, callTrace, callMessage

callVars == << callInput, callTrace, callMessage >>

vars == << mintVars, formVars, authVars, routeVars, loginVars, listVars, callVars >>

\* ------------------------------------- the parts right after construction

SubmitIds == 1..MaxSubmits

\* part_001, lines 153-161: useState<FormData>; texts are character sequences,
\* image is whether a file is selected
EmptyForm ==
    [projectName |-> <<>>, projectSymbol |-> <<>>, image |-> FALSE,
     totalSupply |-> <<>>, mintPrice |-> <<>>, contractOwner |-> <<>>,
     royalties |-> <<>>]

\* no run of handleSubmit for this click yet
NoRun == [pc |-> "none"]

\* part_001, lines 72-73, 87-90, 153-161
FormInitial ==
    /\ submitting = FALSE
    /\ homeMessage = NoMessage
    /\ formData = EmptyForm
    /\ projectNameAvailable = "null"
    /\ projectSymbolAvailable = "null"
    /\ checkingProjectName = FALSE
    /\ checkingProjectSymbol = FALSE
    /\ submitCalls = [id \in SubmitIds |-> NoRun]
    /\ submitClicks = 0
    /\ inputChanges = 0

\* part_001, lines 93-98: useState<LoginFormData>
EmptyLoginForm == [name |-> <<>>, email |-> <<>>, mobile |-> <<>>, password |-> <<>>]

\* part_001, lines 83, 93-98
LoginFormInitial ==
    /\ loginFormData = EmptyLoginForm
    /\ isLogin = TRUE
    /\ loginClicks = 0
    /\ loginRequests = 0

\* a list of projects, by the number of projects of each status
ProjectList(approved, pending) == [approved |-> approved, pending |-> pending]

\* part_001, lines 74, 77-78
ListInitial ==
    /\ userProjects = ProjectList(0, 0)
    /\ activeTab = "all"
    /\ currentPage = 1
    /\ projectsFetches = {}
    /\ loginTimers = {}

\* no function was applied yet
CallsInitial ==
    /\ callInput = <<>>
    /\ callTrace = <<>>
    /\ callMessage = "none"

\* part_001, lines 69-71
HomeInitial ==
    /\ artistData = None
    /\ isAuthenticated = FALSE
    /\ homeLoading = TRUE
    /\ homeMounted = FALSE
    /\ artistFetch = None
    /\ loginRequest = "none"
    /\ loginMessage = ""

\* Home as constructed, opened at its plain address in a browser without a
\* stored session
SessionInitial ==
    /\ HomeInitial
    /\ storedArtistData = None
    /\ urlArtistId = None
    /\ reloads = 0

\* localStorage.setItem('artistData', JSON.stringify(artist)), lines 298, 721
StoredArtist(artist) == Some([valid |-> TRUE, artist |-> artist])

\* Home after a login as artist (lines 721-723) and the end of loading
SessionLoggedIn(artist) ==
    /\ artistData = Some(artist)
    /\ isAuthenticated = TRUE
    /\ homeLoading = FALSE
    /\ homeMounted = TRUE
    /\ artistFetch = None
    /\ loginRequest = "none"
    /\ loginMessage = ""
    /\ storedArtistData = StoredArtist(artist)
    /\ urlArtistId = None
    /\ reloads = 0

\* ProjectsApp.tsx, line 94, at the gallery's address
RouterInitial ==
    /\ view = "gallery"
    /\ pathname = << "/", "p", "r", "o", "j", "e", "c", "t", "s" >>
    /\ projects = {}
    /\ galleryLoading = TRUE
    /\ appMounted = FALSE
    /\ projectsFetch = 0
    /\ projectClicks = 0

TxIds == 1..MaxClicks

\* the request useWriteContract reports on is the last one made
observedWrite == writeCalls

\* the ids of the requests the wallet holds
PendingIds == { r.id : r \in pendingWrites }


\* ------------------------------------------------------- pure functions

\* the classification of the writeContractError effect, lines 319-329:
\* errorMessage = error.message || 'Unknown error', then includes() in order
ErrorMessageOf(err) == IF err = <<>> THEN <<"Unknown", "error">> ELSE err

\* ClassifyWriteError with the two tests in the other order: a text that
\* names both a rejection and funds gets the funds message
ClassifyWriteError_FundsFirst(err) ==
    LET errorMessage == ErrorMessageOf(err) IN
    IF Includes(errorMessage, <<"balance">>) \/ Includes(errorMessage, <<"insufficient", "funds">>)
        THEN Msg("Insufficient funds for gas fees", "error")
    ELSE IF Includes(errorMessage, <<"User", "rejected">>) \/ Includes(errorMessage, <<"User", "denied">>)
        THEN Msg("Transaction cancelled by user", "error")
    ELSE Msg("Transaction failed. Please try again.", "error")

ClassifyWriteError(err) ==
    LET errorMessage == ErrorMessageOf(err) IN
    IF Includes(errorMessage, <<"User", "rejected">>) \/ Includes(errorMessage, <<"User", "denied">>)
        THEN Msg("Transaction cancelled by user", "error")
    ELSE IF Includes(errorMessage, <<"balance">>) \/ Includes(errorMessage, <<"insufficient", "funds">>)
        THEN Msg("Insufficient funds for gas fees", "error")
    ELSE Msg("Transaction failed. Please try again.", "error")

\* viem's formatEther (line 594), from wei to POL
FormatEther(wei) == wei \div WeiPerEther

\* a price in POL, such as project.mintPrice, in wei
ParseEther(pol) == pol * WeiPerEther

\* PricePerNFT falling back to the stored project.mintPrice, as the displayed
\* price of line 594 does
PricePerNFT_StoredFallback(bp) ==
    IF IsSome(bp) /\ The(bp) # 0 THEN The(bp) ELSE ParseEther(project.mintPrice)

\* lines 515-516: pricePerNFT = basePrice || BigInt(0) (undefined and 0n are
\* both falsy), totalPrice = pricePerNFT * BigInt(mintAmount)
PricePerNFT(bp) == IF IsSome(bp) /\ The(bp) # 0 THEN The(bp) ELSE 0

TotalPrice(bp, amount) == PricePerNFT(bp) * amount

\* line 594: displayPricePerNFT, in POL
DisplayPricePerNFT(bp, p) ==
    IF IsSome(bp) /\ The(bp) # 0 THEN FormatEther(The(bp)) ELSE p.mintPrice

\* line 544: the success text
SuccessText(n) == "Successfully minted " \o ToString(n) \o " NFT(s)!"

\* parseInt of the amount input (line 824), on character sequences: an
\* optional sign, then the longest prefix of digits; None is NaN
DigitValue(c) ==
    CASE c = "0" -> 0 [] c = "1" -> 1 [] c = "2" -> 2 [] c = "3" -> 3
      [] c = "4" -> 4 [] c = "5" -> 5 [] c = "6" -> 6 [] c = "7" -> 7
      [] c = "8" -> 8 [] c = "9" -> 9
      [] OTHER -> -1

RECURSIVE ParseDigits(_, _, _)
ParseDigits(s, acc, seen) ==
    IF s = <<>> \/ DigitValue(Head(s)) < 0
        THEN IF seen THEN Some(acc) ELSE None
        ELSE ParseDigits(Tail(s), acc * 10 + DigitValue(Head(s)), TRUE)

ParseInt(s) ==
    IF s # <<>> /\ Head(s) = "-"
        THEN LET r == ParseDigits(Tail(s), 0, FALSE) IN
             IF IsSome(r) THEN Some(0 - The(r)) ELSE None
        ELSE ParseDigits(s, 0, FALSE)

\* line 824: Math.max(1, parseInt(e.target.value) || 1)
AmountFromInput(s) ==
    LET n == ParseInt(s) IN
    Max(1, IF IsSome(n) /\ The(n) # 0 THEN The(n) ELSE 1)

\* what the user may leave in the amount input: empty, zero, negative, not a
\* number, a number, a number followed by other text, a padded number
AmountInputs ==
    { <<>>, <<"0">>, <<"-", "2">>, <<"a">>, <<"1">>, <<"2">>, <<"3">>,
      <<"2", "a">>, <<"0", "2">>, <<"1", "2">> }

\* ------------------------------------------------------ derived values

\* lines 536-538: useWaitForTransactionReceipt({ hash: txHash })
isConfirming == IsSome(txHash) /\ receipt[The(txHash)] = "pending"
isConfirmed == IsSome(txHash) /\ receipt[The(txHash)] = "success"

\* canMint without the mintingEnabled test
canMint_IgnoresEnabled ==
    /\ project.status = "approved"
    /\ Truthy(project.contractAddress)

\* lines 589-591
canMint ==
    /\ project.status = "approved"
    /\ Truthy(project.contractAddress)
    /\ project.mintingEnabled

\* line 593
isMintDisabled == minting \/ isConfirming \/ ~isConnected \/ ~canMint

\* the render: lines 554-587 return early while loading or without a project
ProjectShown == ~loading /\ project # NullProject

\* line 776: {canMint && ( <minting-section> )}
MintingSectionRendered == ProjectShown /\ canMint

\* lines 796-876: inside the section, the connect button or the controls
MintControlsRendered == MintingSectionRendered /\ isConnected

\* lines 910-920: the "not yet enabled" box
NotLiveBoxRendered ==
    /\ ProjectShown
    /\ project.status = "approved"
    /\ Truthy(project.contractAddress)
    /\ ~project.mintingEnabled

\* lines 843-846: the mint button can be clicked
MintButtonEnabled == MintControlsRendered /\ ~isMintDisabled

\* lines 814-835: -, input, + carry disabled={minting || isConfirming}
AmountControlsEnabled == MintControlsRendered /\ ~(minting \/ isConfirming)

\* useReadContract's query.enabled, line 487
PriceReadEnabled == Truthy(project.contractAddress) /\ isConnected

\* ---------------------------------------------------------------- Init

\* ProjectView right after mount: lines 276-281 give the useState values,
\* the mount effect of lines 310-313 has called fetchProjectData once.  The
\* wallet may already be connected, on any chain.
Init ==
    /\ LoginFormInitial /\ ListInitial /\ CallsInitial
    /\ project = NullProject
    /\ loading = TRUE
    /\ minting = FALSE
    /\ mintAmount = 1
    /\ message = NoMessage
    /\ txHash = None
    /\ isConnected \in BOOLEAN
    /\ walletAddress = IF isConnected THEN WalletAddr ELSE NoAddress
    /\ chainId \in Chains
    /\ basePrice = None
    /\ publicSaleCost \in OnChainPrices
    /\ hash = None
    /\ writeContractError = None
    /\ pendingWrites = {}
    /\ receipt = [h \in TxIds |-> "none"]
    /\ mintCalls = <<>>
    /\ fetchPending = 1
    /\ mintClicks = 0
    /\ writeCalls = 0
    /\ FormInitial
    /\ SessionInitial
    /\ RouterInitial

\* ------------------------------------------------------- fetchProjectData

\* lines 371-391, the answer is ok: setProject, then finally setLoading(false).
\* A project without contract address changes the key of the price read, so
\* its data is gone.  (setEditDescription / setEditBackgroundColor feed the
\* owner's edit modal only.)
FetchProjectOk(p) ==
    /\ fetchPending > 0
    /\ fetchPending' = fetchPending - 1
    /\ project' = p
    /\ loading' = FALSE
    /\ basePrice' = IF Truthy(p.contractAddress) THEN basePrice ELSE None
    /\ UNCHANGED << minting, mintAmount, message, txHash, isConnected, walletAddress,
                    chainId, publicSaleCost, hash, writeContractError, pendingWrites,
                    receipt, mintCalls, mintClicks, writeCalls,
                    formVars, authVars, routeVars,
                    loginVars, listVars, callVars >>

\* lines 382-384 (response not ok) and 385-387 (fetch rejected)
FetchProjectFails(text) ==
    /\ fetchPending > 0
    /\ fetchPending' = fetchPending - 1
    /\ message' = Msg(text, "error")
    /\ loading' = FALSE
    /\ UNCHANGED << project, minting, mintAmount, txHash, isConnected, walletAddress,
                    chainId, basePrice, publicSaleCost, hash, writeContractError,
                    pendingWrites, receipt, mintCalls, mintClicks,
                    writeCalls,
                    formVars, authVars, routeVars,
                    loginVars, listVars, callVars >>

\* ------------------------------------------------------------ the wallet

\* useAccount: the user connects through the ConnectButton of lines 796-806
WalletConnect ==
    /\ ~isConnected
    /\ isConnected' = TRUE
    /\ walletAddress' = WalletAddr
    /\ UNCHANGED << project, loading, minting, mintAmount, message, txHash, chainId,
                    basePrice, publicSaleCost, hash, writeContractError, pendingWrites,
                    receipt, mintCalls, fetchPending, mintClicks,
                    writeCalls,
                    formVars, authVars, routeVars,
                    loginVars, listVars, callVars >>

\* lines 868-873 (disconnect()) or a disconnect in the wallet itself
WalletDisconnect ==
    /\ isConnected
    /\ isConnected' = FALSE
    /\ walletAddress' = NoAddress
    /\ UNCHANGED << project, loading, minting, mintAmount, message, txHash, chainId,
                    basePrice, publicSaleCost, hash, writeContractError, pendingWrites,
                    receipt, mintCalls, fetchPending, mintClicks,
                    writeCalls,
                    formVars, authVars, routeVars,
                    loginVars, listVars, callVars >>

\* lines 483-488: the publicSaleCost read answers; until it does, and when
\* it fails, data stays undefined
PriceReadSucceeds ==
    /\ PriceReadEnabled
    /\ basePrice = None
    /\ basePrice' = Some(publicSaleCost)
    /\ UNCHANGED << project, loading, minting, mintAmount, message, txHash, isConnected,
                    walletAddress, chainId, publicSaleCost, hash, writeContractError,
                    pendingWrites, receipt, mintCalls, fetchPending,
                    mintClicks, writeCalls,
                    formVars, authVars, routeVars,
                    loginVars, listVars, callVars >>

\* -------------------------------------------------------- amount controls

\* line 815: Math.max(1, mintAmount - 1)
DecrementedAmount(n) == Max(1, n - 1)

\* line 815
DecrementAmount ==
    /\ AmountControlsEnabled
    /\ mintAmount' = DecrementedAmount(mintAmount)
    /\ UNCHANGED << project, loading, minting, message, txHash, isConnected,
                    walletAddress, chainId, basePrice, publicSaleCost, hash,
                    writeContractError, pendingWrites, receipt, mintCalls,
                    fetchPending, mintClicks, writeCalls,
                    formVars, authVars, routeVars,
                    loginVars, listVars, callVars >>

\* line 830
IncrementAmount ==
    /\ AmountControlsEnabled
    /\ mintAmount < MaxAmount
    /\ mintAmount' = mintAmount + 1
    /\ UNCHANGED << project, loading, minting, message, txHash, isConnected,
                    walletAddress, chainId, basePrice, publicSaleCost, hash,
                    writeContractError, pendingWrites, receipt, mintCalls,
                    fetchPending, mintClicks, writeCalls,
                    formVars, authVars, routeVars,
                    loginVars, listVars, callVars >>

\* line 824
InputAmount(s) ==
    /\ AmountControlsEnabled
    /\ AmountFromInput(s) <= MaxAmount
    /\ mintAmount' = AmountFromInput(s)
    /\ UNCHANGED << project, loading, minting, message, txHash, isConnected,
                    walletAddress, chainId, basePrice, publicSaleCost, hash,
                    writeContractError, pendingWrites, receipt, mintCalls,
                    fetchPending, mintClicks, writeCalls,
                    formVars, authVars, routeVars,
                    loginVars, listVars, callVars >>


\* --------------------------------------------------------------- handleMint

\* what the closure of handleMint holds of the render it was created in, and
\* the state of the chain switch it asked for
Closure(switch) ==
    [contractAddress |-> project.contractAddress, mintAmount |-> mintAmount,
     basePrice |-> basePrice, walletAddress |-> walletAddress, switch |-> switch]

\* handleMint without the test of line 491
WalletMissing_Skipped == FALSE

\* line 491
WalletMissing == ~isConnected \/ ~Truthy(walletAddress)

\* handleMint without the test of line 496
ContractMissing_Skipped == FALSE

\* line 496 (project?.contractAddress: null project included)
ContractMissing == ~Truthy(project.contractAddress)

\* line 501
WrongChain == chainId # Polygon

\* lines 518-524: the argument of writeContract
MintRequest(c) ==
    [address |-> c.contractAddress,
     args    |-> << c.mintAmount, "Collector", c.walletAddress >>,
     value   |-> TotalPrice(c.basePrice, c.mintAmount)]

\* useWriteContract's mutate: a new request goes to the wallet and becomes the
\* one the hook reports on, data and error are reset
WriteContract(req) ==
    /\ writeCalls' = writeCalls + 1
    /\ pendingWrites' = pendingWrites \cup
            {[id |-> writeCalls + 1, address |-> req.address, args |-> req.args,
              value |-> req.value]}
    /\ hash' = None
    /\ writeContractError' = None

\* lines 511-524.  The catch of lines 526-533 has nothing to catch: the
\* amounts are integers, and mutate reports a failure through the hook's
\* error (WriteContractFails below), never by throwing.
SubmitMint(c, rest) ==
    /\ minting' = TRUE
    /\ message' = Msg("Initiating mint transaction...", "info")
    /\ WriteContract(MintRequest(c))
    /\ mintCalls' = rest

\* lines 490-534, up to the first await.  useSwitchChain's switchChain is the
\* mutation's mutate: it returns undefined at once and reports the wallet's
\* answer through the hook, which ProjectView does not read; so the await of
\* line 503 never rejects, the catch of lines 505-508 is never entered, and
\* the handler goes on after the second of line 504 whatever the wallet said.
HandleMint ==
    /\ mintClicks < MaxClicks
    /\ mintClicks' = mintClicks + 1
    /\ IF WalletMissing THEN
            /\ message' = Msg("Please connect your wallet first", "error")
            /\ UNCHANGED << minting, mintCalls, writeCalls, pendingWrites, hash, writeContractError >>
       ELSE IF ContractMissing THEN
            /\ message' = Msg("Project contract address not found", "error")
            /\ UNCHANGED << minting, mintCalls, writeCalls, pendingWrites, hash, writeContractError >>
       ELSE IF WrongChain THEN
            /\ mintCalls' = Append(mintCalls, Closure("pending"))
            /\ UNCHANGED << minting, message, writeCalls, pendingWrites, hash, writeContractError >>
       ELSE SubmitMint(Closure("none"), mintCalls)
    /\ UNCHANGED << project, loading, mintAmount, txHash, isConnected, walletAddress,
                    chainId, basePrice, publicSaleCost, receipt, fetchPending,
                    formVars, authVars, routeVars,
                    loginVars, listVars, callVars >>

\* lines 843-846: the user clicks the mint button
ClickMint ==
    /\ MintButtonEnabled
    /\ HandleMint

\* The wallet holds the switch requests of the suspended calls in the order
\* they were made and answers the oldest first.  Once the chain is Polygon
\* every request to switch to it is granted without asking.  (The request of
\* a call that has gone on before the answer is not followed further: its
\* answer can only change chainId, as the answer to a later request does.)
FirstPending ==
    CHOOSE i \in 1..Len(mintCalls) :
        /\ mintCalls[i].switch = "pending"
        /\ \A k \in 1..(i - 1) : mintCalls[k].switch # "pending"

SwitchChainApproved ==
    /\ chainId # Polygon
    /\ \E i \in 1..Len(mintCalls) : mintCalls[i].switch = "pending"
    /\ chainId' = Polygon
    /\ UNCHANGED << project, loading, minting, mintAmount, message, txHash, isConnected,
                    walletAddress, basePrice, publicSaleCost, hash, writeContractError,
                    pendingWrites, receipt, mintCalls, fetchPending, mintClicks,
                    writeCalls,
                    formVars, authVars, routeVars,
                    loginVars, listVars, callVars >>

\* the user refuses the oldest request; nothing ProjectView reads changes
SwitchChainRejected ==
    /\ chainId # Polygon
    /\ \E i \in 1..Len(mintCalls) : mintCalls[i].switch = "pending"
    /\ mintCalls' = [mintCalls EXCEPT ![FirstPending].switch = "rejected"]
    /\ UNCHANGED << project, loading, minting, mintAmount, message, txHash, isConnected,
                    walletAddress, chainId, basePrice, publicSaleCost, hash,
                    writeContractError, pendingWrites, receipt, fetchPending, mintClicks,
                    writeCalls,
                    formVars, authVars, routeVars,
                    loginVars, listVars, callVars >>

\* lines 504-524: the timer of the oldest suspended call fires and the call
\* goes on with the values of its closure
MintAfterSwitch ==
    /\ mintCalls # <<>>
    /\ SubmitMint(Head(mintCalls), Tail(mintCalls))
    /\ UNCHANGED << project, loading, mintAmount, txHash, isConnected, walletAddress,
                    chainId, basePrice, publicSaleCost, receipt, fetchPending,
                    mintClicks,
                    formVars, authVars, routeVars,
                    loginVars, listVars, callVars >>

\* --------------------------------------------- the wallet answers a write

\* lines 333-338, the effect on [hash, txHash]
HashEffectUpdates(h, tx) == IsSome(h) /\ ~IsSome(tx)

\* The transaction of request id is broadcast; the hook reports the hash when
\* id is the request it observes, and the effect of lines 333-338 runs with
\* the new hash
WriteContractSucceeds(id) ==
    /\ id \in PendingIds
    /\ pendingWrites' = { r \in pendingWrites : r.id # id }
    /\ receipt' = [receipt EXCEPT ![id] = "pending"]
    /\ IF id = observedWrite
          THEN /\ hash' = Some(id)
               /\ IF HashEffectUpdates(Some(id), txHash)
                     THEN /\ txHash' = Some(id)
                          /\ message' = Msg("Transaction submitted! Waiting for confirmation...", "info")
                     ELSE UNCHANGED << txHash, message >>
          ELSE UNCHANGED << hash, txHash, message >>
    /\ UNCHANGED << project, loading, minting, mintAmount, isConnected, walletAddress,
                    chainId, basePrice, publicSaleCost, writeContractError, mintCalls,
                    fetchPending, mintClicks, writeCalls,
                    formVars, authVars, routeVars,
                    loginVars, listVars, callVars >>

\* lines 333-338 again, after txHash was cleared while the hook still holds
\* a hash
HashEffect ==
    /\ HashEffectUpdates(hash, txHash)
    /\ txHash' = hash
    /\ message' = Msg("Transaction submitted! Waiting for confirmation...", "info")
    /\ UNCHANGED << project, loading, minting, mintAmount, isConnected, walletAddress,
                    chainId, basePrice, publicSaleCost, hash, writeContractError,
                    pendingWrites, receipt, mintCalls, fetchPending,
                    mintClicks, writeCalls,
                    formVars, authVars, routeVars,
                    loginVars, listVars, callVars >>

\* The wallet or the user refuses request id; for the observed request the
\* hook's error changes and the effect of lines 316-331 runs
WriteContractFails(id, err) ==
    /\ id \in PendingIds
    /\ pendingWrites' = { r \in pendingWrites : r.id # id }
    /\ IF id = observedWrite
          THEN /\ writeContractError' = Some(err)
               /\ minting' = FALSE
               /\ txHash' = None
               /\ message' = ClassifyWriteError(err)
          ELSE UNCHANGED << writeContractError, minting, txHash, message >>
    /\ UNCHANGED << project, loading, mintAmount, isConnected, walletAddress, chainId,
                    basePrice, publicSaleCost, hash, receipt, mintCalls,
                    fetchPending, mintClicks, writeCalls,
                    formVars, authVars, routeVars,
                    loginVars, listVars, callVars >>

\* ------------------------------------------------------------ the receipt

\* the effect of lines 540-552 without setMintAmount(1)
ConfirmationEffectBody_KeepsAmount ==
    /\ fetchPending < MaxFetch
    /\ minting' = FALSE
    /\ message' = Msg(SuccessText(mintAmount), "success")
    /\ fetchPending' = fetchPending + 1
    /\ mintAmount' = mintAmount
    /\ txHash' = None

\* lines 540-552, the body of the effect on [isConfirmed, txHash]
ConfirmationEffectBody ==
    /\ fetchPending < MaxFetch
    /\ minting' = FALSE
    /\ message' = Msg(SuccessText(mintAmount), "success")
    /\ fetchPending' = fetchPending + 1
    /\ mintAmount' = 1
    /\ txHash' = None

\* useWaitForTransactionReceipt: the receipt of the watched hash arrives and
\* reports success; the effect of lines 540-552 runs
ReceiptSuccess ==
    /\ isConfirming
    /\ receipt' = [receipt EXCEPT ![The(txHash)] = "success"]
    /\ ConfirmationEffectBody
    /\ UNCHANGED << project, loading, isConnected, walletAddress, chainId, basePrice,
                    publicSaleCost, hash, writeContractError, pendingWrites,
                    mintCalls, mintClicks, writeCalls,
                    formVars, authVars, routeVars,
                    loginVars, listVars, callVars >>

\* the transaction reverted: the query ends in error, isSuccess stays false
ReceiptReverted ==
    /\ isConfirming
    /\ receipt' = [receipt EXCEPT ![The(txHash)] = "reverted"]
    /\ UNCHANGED << project, loading, minting, mintAmount, message, txHash, isConnected,
                    walletAddress, chainId, basePrice, publicSaleCost, hash,
                    writeContractError, pendingWrites, mintCalls,
                    fetchPending, mintClicks, writeCalls,
                    formVars, authVars, routeVars,
                    loginVars, listVars, callVars >>

\* lines 540-552 again: txHash names a hash whose receipt the query cache
\* already holds, so isConfirmed is true as soon as txHash is set
ConfirmationEffect ==
    /\ isConfirmed
    /\ ConfirmationEffectBody
    /\ UNCHANGED << project, loading, isConnected, walletAddress, chainId, basePrice,
                    publicSaleCost, hash, writeContractError, pendingWrites,
                    receipt, mintCalls, mintClicks, writeCalls,
                    formVars, authVars, routeVars,
                    loginVars, listVars, callVars >>

\* ------------------------------------------------------- specifications

Environment ==
    \/ \E p \in ProjectSamples : FetchProjectOk(p)
    \/ \E t \in {"Project not found", "Failed to load project"} : FetchProjectFails(t)
    \/ WalletConnect
    \/ WalletDisconnect
    \/ PriceReadSucceeds
    \/ SwitchChainApproved
    \/ SwitchChainRejected
    \/ \E id \in TxIds : WriteContractSucceeds(id)
    \/ \E id \in TxIds, err \in WalletErrors : WriteContractFails(id, err)
    \/ ReceiptSuccess
    \/ ReceiptReverted

Component ==
    \/ DecrementAmount
    \/ IncrementAmount
    \/ \E s \in AmountInputs : InputAmount(s)
    \/ MintAfterSwitch
    \/ HashEffect
    \/ ConfirmationEffect

\* ProjectView as the user drives it: handleMint runs when the mint button
\* is clicked
Next == ClickMint \/ Component \/ Environment

Spec == Init /\ [][Next]_vars

\* handleMint as a function: it may be called in any state of the component
NextHandler == HandleMint \/ Component \/ Environment

SpecHandler == Init /\ [][NextHandler]_vars

TypeOK ==
    /\ project \in ProjectSamples \cup {NullProject}
    /\ loading \in BOOLEAN /\ minting \in BOOLEAN
    /\ mintAmount \in 1..MaxAmount
    /\ txHash \in {None} \cup {Some(h) : h \in TxIds}
    /\ hash \in {None} \cup {Some(h) : h \in TxIds}
    /\ PendingIds \subseteq TxIds
    /\ Len(mintCalls) <= MaxClicks
    /\ writeCalls <= mintClicks

\* ===================================================================
\* Part 2: the project form of Home (src/unnamed/part_001)
\* ===================================================================

\* String.prototype.trim, on character sequences
RECURSIVE TrimStart(_)
TrimStart(s) == IF s # <<>> /\ Head(s) = " " THEN TrimStart(Tail(s)) ELSE s

RECURSIVE TrimEnd(_)
TrimEnd(s) ==
    IF s # <<>> /\ s[Len(s)] = " " THEN TrimEnd(SubSeq(s, 1, Len(s) - 1)) ELSE s

Trim(s) == TrimEnd(TrimStart(s))

\* the number of leading decimal digits of s
RECURSIVE DigitPrefixLen(_)
DigitPrefixLen(s) ==
    IF s = <<>> \/ DigitValue(Head(s)) < 0 THEN 0 ELSE 1 + DigitPrefixLen(Tail(s))

\* parseFloat, on character sequences: leading blanks, an optional sign,
\* digits, an optional point and digits; None is NaN.  The value is given in
\* tenths (the texts followed have at most one digit after the point).
ParseFloat(s) ==
    LET t == TrimStart(s)
        neg == t # <<>> /\ Head(t) = "-"
        u == IF t # <<>> /\ Head(t) \in {"-", "+"} THEN Tail(t) ELSE t
        intLen == DigitPrefixLen(u)
        int == IF intLen = 0 THEN 0 ELSE The(ParseDigits(SubSeq(u, 1, intLen), 0, FALSE))
        rest == SubSeq(u, intLen + 1, Len(u))
        frac == IF rest # <<>> /\ Head(rest) = "." THEN Tail(rest) ELSE <<>>
        fracLen == DigitPrefixLen(frac)
        tenth == IF fracLen = 0 THEN 0 ELSE DigitValue(Head(frac))
    IN  IF intLen = 0 /\ fracLen = 0 THEN None
        ELSE Some((IF neg THEN -1 ELSE 1) * (int * 10 + tenth))

\* the limits of validateForm, lines 386 and 439
MaxSymbolLen == 10
AddressHexLen == 40

HexChars ==
    {"0", "1", "2", "3", "4", "5", "6", "7", "8", "9",
     "a", "b", "c", "d", "e", "f", "A", "B", "C", "D", "E", "F"}

\* line 439: /^0x[a-fA-F0-9]{40}$/.test(s)
IsEthAddress(s) ==
    /\ Len(s) = 2 + AddressHexLen
    /\ s[1] = "0" /\ s[2] = "x"
    /\ \A i \in 3..Len(s) : s[i] \in HexChars

\* the rules of validateForm before its availability checks, lines 377-390:
\* the text of the first rule that fails, None when none does
PreCheckError(f) ==
    IF Trim(f.projectName) = <<>> THEN Some("Project name is required")
    ELSE IF Trim(f.projectSymbol) = <<>> THEN Some("Project symbol is required")
    ELSE IF Len(f.projectSymbol) > MaxSymbolLen
        THEN Some("Project symbol must be 10 characters or less")
    ELSE None

\* JS: a comparison with NaN is false
LessThan(n, k) == IsSome(n) /\ The(n) < k
GreaterThan(n, k) == IsSome(n) /\ The(n) > k

\* the rules of validateForm after its availability checks, lines 416-450
\* (parseFloat values are in tenths)
PostCheckError(f) ==
    IF f.totalSupply = <<>> \/ LessThan(ParseInt(f.totalSupply), 1)
        THEN Some("Total supply must be at least 1")
    ELSE IF f.mintPrice = <<>> \/ LessThan(ParseFloat(f.mintPrice), 0)
        THEN Some("Mint price cannot be negative")
    ELSE IF f.royalties = <<>> \/ LessThan(ParseFloat(f.royalties), 0)
        THEN Some("Royalties cannot be negative")
    ELSE IF GreaterThan(ParseFloat(f.royalties), 100 * 10)
        THEN Some("Royalties cannot exceed 100%")
    ELSE IF Trim(f.contractOwner) = <<>>
        THEN Some("Contract owner wallet address is required")
    ELSE IF ~IsEthAddress(Trim(f.contractOwner))
        THEN Some("Please enter a valid Ethereum wallet address (0x...)")
    ELSE IF ~f.image THEN Some("Project image is required")
    ELSE None

\* lines 93 and 124: the text is too short to be checked
SymbolTooShort(text) == Trim(text) = <<>> \/ Len(Trim(text)) < 1
NameTooShort_EmptyOnly(text) == Trim(text) = <<>>
NameTooShort(text) == Trim(text) = <<>> \/ Len(Trim(text)) < 2

\* ------------------------------------------------------ the form's values

\* a well-formed wallet address
ValidOwner ==
    [i \in 1..(2 + AddressHexLen) |->
        IF i = 1 THEN "0" ELSE IF i = 2 THEN "x" ELSE IF i % 2 = 1 THEN "a" ELSE "7"]

\* a form that passes every rule
ValidForm ==
    [projectName |-> <<"a", "b">>, projectSymbol |-> <<"S">>, image |-> TRUE,
     totalSupply |-> <<"5">>, mintPrice |-> <<"1", ".", "5">>,
     contractOwner |-> ValidOwner, royalties |-> <<"5">>]

\* the form as the artist may have filled it before the first click: not
\* at all, completely, or with a supply of zero and royalties above 100
FormSamples ==
    { EmptyForm,
      ValidForm,
      [ValidForm EXCEPT !.totalSupply = <<"0">>, !.royalties = <<"1", "0", "1">>] }

\* what the artist may type afterwards: <<field, text>>
InputSamples ==
    { <<"projectName", <<"a">>>>, <<"projectName", <<"c", "d">>>>,
      <<"projectSymbol", <<"T">>>> }

\* the artist of the session
ArtistSamples == { [id |-> "artist-1"] }

\* artistData?.id
HasArtistId == IsSome(artistData) /\ Truthy(The(artistData).id)

\* what the check endpoints answer: available, taken, or no usable answer
\* (the fetch rejects or the body cannot be parsed)
CheckAnswers == {"true", "false", "failed"}

\* what create-project answers: ok, or not ok with result.error (its text
\* and the words of it that handleSubmit looks for), or no answer at all
CreateAnswers ==
    { [kind |-> "ok", error |-> "", words |-> <<>>],
      [kind |-> "error", error |-> "A project name of this artist already exists",
       words |-> <<"project name", "already exists">>],
      [kind |-> "error", error |-> "This project symbol already exists",
       words |-> <<"project symbol", "already exists">>],
      [kind |-> "error", error |-> "", words |-> <<>>],
      [kind |-> "network", error |-> "", words |-> <<>>] }

\* ----------------------------------------------------------- the render

\* lines 784-792: the dashboard, and with it the form, is rendered
FormShown == ~homeLoading /\ isAuthenticated

\* lines 1225-1231: disabled={submitting}
SubmitButtonEnabled == FormShown /\ ~submitting

\* lines 1081, 1107, 1125: disabled={submitting}
FormInputsEnabled == FormShown /\ ~submitting

\* lines 1065-1069 and 1090-1094: the indicator next to the label
NameIndicator ==
    IF projectNameAvailable # "null" /\ Trim(formData.projectName) # <<>>
        THEN (IF projectNameAvailable = "true" THEN "available" ELSE "taken")
        ELSE "none"

SymbolIndicator ==
    IF projectSymbolAvailable # "null" /\ Trim(formData.projectSymbol) # <<>>
        THEN (IF projectSymbolAvailable = "true" THEN "available" ELSE "taken")
        ELSE "none"

\* ------------------------------------------------ handleInputChange

\* lines 325-339
HandleInputChange(name, value) ==
    /\ FormInputsEnabled
    /\ inputChanges < MaxInputs
    /\ inputChanges' = inputChanges + 1
    /\ formData' = [formData EXCEPT ![name] = value]
    /\ projectNameAvailable' =
            IF name = "projectName" THEN "null" ELSE projectNameAvailable
    /\ projectSymbolAvailable' =
            IF name = "projectSymbol" THEN "null" ELSE projectSymbolAvailable
    /\ UNCHANGED << submitting, homeMessage, checkingProjectName, checkingProjectSymbol,
                    submitCalls, submitClicks, mintVars, authVars, routeVars,
                    loginVars, listVars, callVars >>

\* --------------------------------------------- validateForm, handleSubmit

\* a run that has returned
EndRun(outcome) == [pc |-> "done", outcome |-> outcome]

\* lines 123-152 up to the fetch, called by run id with the projectName of
\* its closure.  (artistData does not change while the form is shown, so the
\* closure's artistData is the current one.)
CheckProjectNameStarts(id, run) ==
    IF NameTooShort(run.form.projectName) THEN
        /\ projectNameAvailable' = "null"
        /\ submitCalls' = [submitCalls EXCEPT ![id] = [run EXCEPT !.pc = "nameWait"]]
        /\ UNCHANGED checkingProjectName
    ELSE IF ~HasArtistId THEN
        /\ submitCalls' = [submitCalls EXCEPT ![id] = [run EXCEPT !.pc = "nameWait"]]
        /\ UNCHANGED << projectNameAvailable, checkingProjectName >>
    ELSE
        /\ checkingProjectName' = TRUE
        /\ submitCalls' = [submitCalls EXCEPT
                ![id] = [run EXCEPT !.pc = "nameCheck", !.nameAnswer = "pending"]]
        /\ UNCHANGED projectNameAvailable

\* lines 92-121 up to the fetch
CheckProjectSymbolStarts(id, run) ==
    IF SymbolTooShort(run.form.projectSymbol) THEN
        /\ projectSymbolAvailable' = "null"
        /\ submitCalls' = [submitCalls EXCEPT ![id] = [run EXCEPT !.pc = "symbolWait"]]
        /\ UNCHANGED checkingProjectSymbol
    ELSE IF ~HasArtistId THEN
        /\ submitCalls' = [submitCalls EXCEPT ![id] = [run EXCEPT !.pc = "symbolWait"]]
        /\ UNCHANGED << projectSymbolAvailable, checkingProjectSymbol >>
    ELSE
        /\ checkingProjectSymbol' = TRUE
        /\ submitCalls' = [submitCalls EXCEPT
                ![id] = [run EXCEPT !.pc = "symbolCheck", !.symbolAnswer = "pending"]]
        /\ UNCHANGED projectSymbolAvailable

\* lines 455-456 and 376-394: the click on 'Create Project' up to the first
\* await.  The run keeps formData and the two verdicts of the render it was
\* created in; nameAnswer and symbolAnswer record what its checks were told.
HandleSubmit ==
    /\ SubmitButtonEnabled
    /\ submitClicks < MaxSubmits
    /\ submitClicks' = submitClicks + 1
    /\ LET id == submitClicks + 1
           run == [pc |-> "start", form |-> formData,
                   nameAvail |-> projectNameAvailable,
                   symbolAvail |-> projectSymbolAvailable,
                   nameAnswer |-> "none", symbolAnswer |-> "none"]
           e == PreCheckError(formData)
       IN  IF IsSome(e) THEN
                /\ homeMessage' = Msg(The(e), "error")
                /\ submitCalls' = [submitCalls EXCEPT ![id] = EndRun("invalid")]
                /\ UNCHANGED << projectNameAvailable, checkingProjectName >>
           ELSE /\ homeMessage' = Msg("Checking project name availability...", "info")
                /\ CheckProjectNameStarts(id, run)
    /\ UNCHANGED << submitting, formData, projectSymbolAvailable, checkingProjectSymbol,
                    inputChanges, mintVars, authVars, routeVars,
                    loginVars, listVars, callVars >>

\* lines 123-152 from the fetch on: the endpoint answers run id's request
\* (lines 142-143), or the request fails (lines 144-146); finally the flag
CheckProjectNameCompletes(id, answer) ==
    /\ submitCalls[id].pc = "nameCheck"
    /\ projectNameAvailable' = IF answer = "failed" THEN "null" ELSE answer
    /\ checkingProjectName' = FALSE
    /\ submitCalls' = [submitCalls EXCEPT
            ![id] = [@ EXCEPT !.pc = "nameWait", !.nameAnswer = answer]]
    /\ UNCHANGED << submitting, homeMessage, formData, projectSymbolAvailable,
                    checkingProjectSymbol, submitClicks, inputChanges, mintVars, authVars,
                    routeVars, loginVars, listVars, callVars >>

\* lines 396-406: after the 100 ms, the test of the closure's
\* projectNameAvailable, then the symbol check
ValidateAfterNameCheck(id) ==
    /\ submitCalls[id].pc = "nameWait"
    /\ IF submitCalls[id].nameAvail = "false" THEN
            /\ homeMessage' = Msg("Project name is already taken. Please choose a different name.", "error")
            /\ submitCalls' = [submitCalls EXCEPT ![id] = EndRun("invalid")]
            /\ UNCHANGED << projectSymbolAvailable, checkingProjectSymbol >>
       ELSE /\ homeMessage' = Msg("Checking project symbol availability...", "info")
            /\ CheckProjectSymbolStarts(id, submitCalls[id])
    /\ UNCHANGED << submitting, formData, projectNameAvailable, checkingProjectName,
                    submitClicks, inputChanges, mintVars, authVars, routeVars,
                    loginVars, listVars, callVars >>

\* lines 92-121 from the fetch on
CheckProjectSymbolCompletes(id, answer) ==
    /\ submitCalls[id].pc = "symbolCheck"
    /\ projectSymbolAvailable' = IF answer = "failed" THEN "null" ELSE answer
    /\ checkingProjectSymbol' = FALSE
    /\ submitCalls' = [submitCalls EXCEPT
            ![id] = [@ EXCEPT !.pc = "symbolWait", !.symbolAnswer = answer]]
    /\ UNCHANGED << submitting, homeMessage, formData, projectNameAvailable,
                    checkingProjectName, submitClicks, inputChanges, mintVars, authVars,
                    routeVars, loginVars, listVars, callVars >>

\* lines 408-453 and 457-491: after the 100 ms, the test of the closure's
\* projectSymbolAvailable, the remaining rules, and handleSubmit up to the
\* create-project request (the image is read on the way)
ValidateAfterSymbolCheck(id) ==
    /\ submitCalls[id].pc = "symbolWait"
    /\ LET run == submitCalls[id]
           e == PostCheckError(run.form)
       IN  IF run.symbolAvail = "false" THEN
                /\ homeMessage' = Msg("Project symbol is already taken. Please choose a different symbol.", "error")
                /\ submitCalls' = [submitCalls EXCEPT ![id] = EndRun("invalid")]
                /\ UNCHANGED submitting
           ELSE IF IsSome(e) THEN
                /\ homeMessage' = Msg(The(e), "error")
                /\ submitCalls' = [submitCalls EXCEPT ![id] = EndRun("invalid")]
                /\ UNCHANGED submitting
           ELSE IF ~HasArtistId THEN
                /\ homeMessage' = Msg("Authentication error. Please log in again.", "error")
                /\ submitCalls' = [submitCalls EXCEPT ![id] = EndRun("authError")]
                /\ UNCHANGED submitting
           ELSE /\ submitting' = TRUE
                /\ homeMessage' = Msg("Creating project...", "info")
                /\ submitCalls' = [submitCalls EXCEPT ![id] = [run EXCEPT !.pc = "creating"]]
    /\ UNCHANGED << formData, projectNameAvailable, projectSymbolAvailable,
                    checkingProjectName, checkingProjectSymbol, submitClicks,
                    inputChanges, mintVars, authVars, routeVars,
                    loginVars, listVars, callVars >>

\* what GET /api/artists/:id/projects answers: a list, or None for an answer
\* that is not ok and for a request that fails
ListAnswers ==
    {None} \cup { Some(ProjectList(a, p)) : a \in {0, MaxApproved}, p \in {0, MaxPending} }

\* lines 313-314: fetchUserProjects(artistId) sends its request
FetchUserProjects(artistId) == projectsFetches \cup {artistId}

\* lines 315-322: the answer to a request of fetchUserProjects
FetchUserProjectsCompletes(artistId, answer) ==
    /\ artistId \in projectsFetches
    /\ projectsFetches' = projectsFetches \ {artistId}
    /\ userProjects' = IF IsSome(answer) THEN The(answer) ELSE userProjects
    /\ UNCHANGED << activeTab, currentPage, loginTimers,
                    mintVars, formVars, authVars, routeVars, loginVars, callVars >>

\* lines 492-548: create-project answers run id's request
CreateProjectCompletes(id, answer) ==
    /\ submitCalls[id].pc = "creating"
    /\ submitting' = FALSE
    /\ submitCalls' = [submitCalls EXCEPT
            ![id] = EndRun(IF answer.kind = "ok" THEN "created" ELSE "failed")]
    /\ CASE answer.kind = "ok" ->
                /\ homeMessage' = Msg("Project created successfully! It's now pending approval.", "success")
                /\ formData' = EmptyForm
                /\ projectNameAvailable' = "null"
                /\ projectSymbolAvailable' = "null"
                /\ projectsFetches' = FetchUserProjects(The(artistData).id)
         [] answer.kind = "error" ->
                /\ homeMessage' = Msg(IF Truthy(answer.error) THEN answer.error
                                      ELSE "Error creating project", "error")
                /\ projectNameAvailable' =
                        IF /\ Includes(answer.words, <<"already exists">>)
                           /\ Includes(answer.words, <<"project name">>)
                        THEN "false" ELSE projectNameAvailable
                /\ projectSymbolAvailable' =
                        IF /\ Includes(answer.words, <<"already exists">>)
                           /\ ~Includes(answer.words, <<"project name">>)
                           /\ Includes(answer.words, <<"project symbol">>)
                        THEN "false" ELSE projectSymbolAvailable
                /\ UNCHANGED << formData, projectsFetches >>
         [] answer.kind = "network" ->
                /\ homeMessage' = Msg("Network error. Please check your connection and try again.", "error")
                /\ UNCHANGED << formData, projectNameAvailable, projectSymbolAvailable,
                                projectsFetches >>
    /\ UNCHANGED << checkingProjectName, checkingProjectSymbol, submitClicks,
                    inputChanges, userProjects, activeTab, currentPage, loginTimers,
                    mintVars, authVars, routeVars, loginVars, callVars >>

\* ------------------------------------------- the form's specification

\* Home with a session, the form shown and filled in by the artist; nothing
\* was checked yet
InitForm ==
    /\ LoginFormInitial /\ ListInitial /\ CallsInitial
    /\ submitting = FALSE
    /\ homeMessage = NoMessage
    /\ formData \in FormSamples
    /\ projectNameAvailable = "null"
    /\ projectSymbolAvailable = "null"
    /\ checkingProjectName = FALSE
    /\ checkingProjectSymbol = FALSE
    /\ submitCalls = [id \in SubmitIds |-> NoRun]
    /\ submitClicks = 0
    /\ inputChanges = 0
    /\ \E a \in ArtistSamples : SessionLoggedIn(a)
    /\ RouterInitial
    /\ project = NullProject /\ loading = TRUE /\ minting = FALSE /\ mintAmount = 1
    /\ message = NoMessage /\ txHash = None /\ isConnected = FALSE
    /\ walletAddress = NoAddress /\ chainId = Polygon /\ basePrice = None
    /\ publicSaleCost \in OnChainPrices /\ hash = None /\ writeContractError = None
    /\ pendingWrites = {} /\ receipt = [h \in TxIds |-> "none"] /\ mintCalls = <<>>
    /\ fetchPending = 1 /\ mintClicks = 0 /\ writeCalls = 0

NextForm ==
    \/ HandleSubmit
    \/ \E in \in InputSamples : HandleInputChange(in[1], in[2])
    \/ \E id \in SubmitIds, answer \in CheckAnswers : CheckProjectNameCompletes(id, answer)
    \/ \E id \in SubmitIds : ValidateAfterNameCheck(id)
    \/ \E id \in SubmitIds, answer \in CheckAnswers : CheckProjectSymbolCompletes(id, answer)
    \/ \E id \in SubmitIds : ValidateAfterSymbolCheck(id)
    \/ \E id \in SubmitIds, answer \in CreateAnswers : CreateProjectCompletes(id, answer)
    \/ \E a \in ArtistSamples, answer \in ListAnswers : FetchUserProjectsCompletes(a.id, answer)

SpecForm == InitForm /\ [][NextForm]_vars

\* ------------------------------------------------- the mint flow's claims
\* A step calls writeContract exactly when it raises writeCalls; it is a run
\* of handleMint from its start exactly when it raises mintClicks.  The call
\* that goes on after the wait of line 504 is the head of mintCalls.

\* C1: writeContract is never invoked while basePrice, the on-chain unit
\* price, is undefined: every step that calls writeContract is taken by a
\* call of handleMint whose basePrice is defined.
C1_NoWriteWithoutPrice ==
    [][ writeCalls' = writeCalls + 1 =>
            IsSome(IF mintClicks' = mintClicks
                      THEN Head(mintCalls).basePrice
                      ELSE basePrice) ]_vars

AttemptInFlight ==
    \/ mintCalls # <<>>
    \/ pendingWrites # {}
    \/ isConfirming

\* C3: only one mint attempt is in flight: no second request is with the
\* wallet while an earlier one is there or its receipt is awaited, and the
\* mint button and the amount controls are disabled from the click to the
\* confirmation or failure, the wait for the chain switch included.
C3_OneAttemptInFlight ==
    /\ Cardinality(pendingWrites) + (IF isConfirming THEN 1 ELSE 0) <= 1
    /\ AttemptInFlight => ~MintButtonEnabled /\ ~AmountControlsEnabled

\* C4: handleMint called while the wallet is not connected (or walletAddress
\* is missing) sets the message 'Please connect your wallet first', leaves
\* minting and txHash as they are, and calls neither switchChain (no call is
\* suspended) nor writeContract.
C4_NotConnectedStaysIdle ==
    [][ (mintClicks' = mintClicks + 1 /\ (~isConnected \/ walletAddress = NoAddress)) =>
            /\ message' = Msg("Please connect your wallet first", "error")
            /\ minting' = minting
            /\ txHash' = txHash
            /\ mintCalls' = mintCalls
            /\ writeCalls' = writeCalls
            /\ pendingWrites' = pendingWrites ]_vars

C4_Witness ==
    /\ ~isConnected
    /\ mintClicks = 1
    /\ message = Msg("Please connect your wallet first", "error")
    /\ ~minting /\ txHash = None /\ writeCalls = 0 /\ mintCalls = <<>>

\* C5: handleMint called with a connected wallet for a project without
\* contractAddress sets the message 'Project contract address not found',
\* leaves minting as it is (false when it was false), and calls neither
\* switchChain nor writeContract.
C5_NoContractStaysIdle ==
    [][ (/\ mintClicks' = mintClicks + 1
         /\ isConnected /\ walletAddress # NoAddress
         /\ project.contractAddress = "") =>
            /\ message' = Msg("Project contract address not found", "error")
            /\ minting' = minting
            /\ mintCalls' = mintCalls
            /\ writeCalls' = writeCalls
            /\ pendingWrites' = pendingWrites ]_vars

C5_Witness ==
    /\ isConnected
    /\ project.status = "approved" /\ project.contractAddress = ""
    /\ mintClicks = 1
    /\ message = Msg("Project contract address not found", "error")
    /\ ~minting /\ writeCalls = 0 /\ mintCalls = <<>>

\* C6: the chain switch completes before the submission: writeContract is
\* called only while the active chain is Polygon, and a call of handleMint
\* whose switch request was refused does not go on to writeContract.
C6_WriteOnlyOnPolygon ==
    [][ writeCalls' = writeCalls + 1 =>
            /\ chainId = Polygon
            /\ mintClicks' = mintClicks => Head(mintCalls).switch # "rejected" ]_vars

\* C7: the value sent with the mint call is exactly the on-chain unit price
\* times mintAmount, mintAmount being the first argument of the same call.
C7_ValueIsPriceTimesAmount ==
    \A r \in pendingWrites :
        /\ r.args[1] \in 1..MaxAmount
        /\ r.value = publicSaleCost * r.args[1]

\* C8: when the hook reports a failed write, minting becomes false, txHash is
\* cleared (the mint button can be used again) and the message is chosen by
\* priority: a text with 'User rejected' or 'User denied' gives 'Transaction
\* cancelled by user'; otherwise one with 'balance' or 'insufficient funds'
\* gives 'Insufficient funds for gas fees'; otherwise 'Transaction failed.
\* Please try again.'
C8_WriteFailureResets ==
    [][ (writeContractError = None /\ writeContractError' # None) =>
            LET e == The(writeContractError')
                text == IF e = <<>> THEN <<"Unknown", "error">> ELSE e
                rejected == \/ Includes(text, <<"User", "rejected">>)
                            \/ Includes(text, <<"User", "denied">>)
                funds == \/ Includes(text, <<"balance">>)
                         \/ Includes(text, <<"insufficient", "funds">>)
            IN  /\ minting' = FALSE
                /\ txHash' = None
                /\ ~isConfirming'
                /\ message'.type = "error"
                /\ message'.text =
                        IF rejected THEN "Transaction cancelled by user"
                        ELSE IF funds THEN "Insufficient funds for gas fees"
                        ELSE "Transaction failed. Please try again." ]_vars

\* a failure whose text names both a rejection and funds: the rejection wins
C8_Witness ==
    /\ writeContractError = Some(<<"User", "rejected", "insufficient", "funds">>)
    /\ message = Msg("Transaction cancelled by user", "error")
    /\ ~minting /\ txHash = None

\* C9: when the receipt of the watched transaction arrives as a success,
\* minting becomes false, the project is fetched again, mintAmount is reset
\* to 1 and txHash is cleared; a hash the hook newly reports is the one
\* waited for when none is; and txHash is only ever set to the hash the
\* hook holds, which is that of a request writeContract made.
C9_ConfirmationResets ==
    [][ /\ (\E h \in TxIds : receipt[h] # "success" /\ receipt'[h] = "success") =>
                /\ minting' = FALSE
                /\ fetchPending' = fetchPending + 1
                /\ mintAmount' = 1
                /\ txHash' = None
        /\ (hash' # hash /\ hash' # None /\ txHash = None) => txHash' = hash'
        /\ (txHash' # txHash /\ txHash' # None) =>
                /\ txHash' = hash'
                /\ The(txHash') \in 1..writeCalls' ]_vars

\* a mint of two was confirmed: the amount is back at 1
C9_Witness ==
    /\ \E h \in TxIds : receipt[h] = "success"
    /\ message = Msg(SuccessText(2), "success")
    /\ ~minting /\ mintAmount = 1 /\ txHash = None /\ fetchPending = 1

\* C10: the minting section (connect button, or amount controls and mint
\* button) is rendered exactly when the project is approved, has a contract
\* address and has minting enabled; an approved project with a contract
\* address and minting disabled shows the "not yet enabled" box and no mint
\* controls.
C10_MintControlsIffMintable ==
    LET mintable == /\ project.status = "approved"
                    /\ project.contractAddress # ""
                    /\ project.mintingEnabled = TRUE
    IN  /\ ProjectShown => (MintingSectionRendered <=> mintable)
        /\ (MintControlsRendered \/ MintButtonEnabled \/ AmountControlsEnabled) => mintable
        /\ (/\ ProjectShown
            /\ project.status = "approved"
            /\ project.contractAddress # ""
            /\ project.mintingEnabled = FALSE) =>
                /\ NotLiveBoxRendered
                /\ ~MintingSectionRendered
                /\ ~MintControlsRendered

\* an approved project with a contract address and minting disabled is shown
\* to a connected wallet
C10_Witness ==
    /\ ProjectShown /\ isConnected
    /\ project.status = "approved" /\ project.contractAddress # ""
    /\ ~project.mintingEnabled
    /\ NotLiveBoxRendered /\ ~MintingSectionRendered

\* C11: mintAmount is a positive integer in every reachable state; whatever
\* is typed into the amount input (empty, zero, negative, not a number
\* included) gives an amount of at least 1, and a decrement at 1 gives 1.
C11_AmountPositive ==
    /\ mintAmount \in Nat /\ mintAmount >= 1
    /\ \A s \in AmountInputs : AmountFromInput(s) \in Nat /\ AmountFromInput(s) >= 1
    /\ DecrementedAmount(mintAmount) >= 1
    /\ DecrementedAmount(1) = 1
    /\ \A s \in {<<>>, <<"0">>, <<"-", "2">>, <<"a">>} : AmountFromInput(s) = 1

\* the amount was raised with the controls, which are still enabled, and a
\* decrement from it is above the floor
C11_Witness ==
    /\ AmountControlsEnabled
    /\ mintAmount = MaxAmount
    /\ DecrementedAmount(mintAmount) = mintAmount - 1

\* ------------------------------------------------ the project form's claims
\* A run of handleSubmit leaves a place in a step when its record changes;
\* its nameAnswer and symbolAnswer are what the checks it made at submit time
\* were told by the endpoints.

\* C12: no project is sent to create-project when the check made at submit
\* time reports the name or the symbol as taken: a run whose name (symbol)
\* check answered available=false ends validateForm with the 'already
\* taken' message, and no run with such an answer issues the create-project
\* request.
C12_TakenBlocksCreate ==
    [][ \A id \in SubmitIds :
            /\ (/\ submitCalls[id].pc = "nameWait"
                /\ submitCalls[id].nameAnswer = "false"
                /\ submitCalls'[id] # submitCalls[id]) =>
                    /\ submitCalls'[id] = EndRun("invalid")
                    /\ homeMessage' = Msg("Project name is already taken. Please choose a different name.", "error")
            /\ (/\ submitCalls[id].pc = "symbolWait"
                /\ submitCalls[id].symbolAnswer = "false"
                /\ submitCalls'[id] # submitCalls[id]) =>
                    /\ submitCalls'[id] = EndRun("invalid")
                    /\ homeMessage' = Msg("Project symbol is already taken. Please choose a different symbol.", "error")
            /\ (/\ submitCalls[id].pc = "symbolWait"
                /\ submitCalls'[id].pc = "creating") =>
                    /\ submitCalls[id].nameAnswer # "false"
                    /\ submitCalls[id].symbolAnswer # "false" ]_vars

\* the rules of the project form in their stated order, for form f and the
\* answers of the checks made at submit time: the text of the first rule
\* that fails, "" when every rule passes
FirstFailingRule(f, nameAnswer, symbolAnswer) ==
    IF Trim(f.projectName) = <<>> THEN "Project name is required"
    ELSE IF Trim(f.projectSymbol) = <<>> THEN "Project symbol is required"
    ELSE IF Len(f.projectSymbol) > 10 THEN "Project symbol must be 10 characters or less"
    ELSE IF nameAnswer = "false"
        THEN "Project name is already taken. Please choose a different name."
    ELSE IF symbolAnswer = "false"
        THEN "Project symbol is already taken. Please choose a different symbol."
    ELSE IF f.totalSupply = <<>> \/ LessThan(ParseInt(f.totalSupply), 1)
        THEN "Total supply must be at least 1"
    ELSE IF f.mintPrice = <<>> \/ LessThan(ParseFloat(f.mintPrice), 0)
        THEN "Mint price cannot be negative"
    ELSE IF f.royalties = <<>> \/ LessThan(ParseFloat(f.royalties), 0)
        THEN "Royalties cannot be negative"
    ELSE IF GreaterThan(ParseFloat(f.royalties), 1000)
        THEN "Royalties cannot exceed 100%"
    ELSE IF Trim(f.contractOwner) = <<>> THEN "Contract owner wallet address is required"
    ELSE IF ~IsEthAddress(Trim(f.contractOwner))
        THEN "Please enter a valid Ethereum wallet address (0x...)"
    ELSE IF ~f.image THEN "Project image is required"
    ELSE ""

\* C13: validation at submit is fail-fast in the stated order: a run of
\* handleSubmit ends with the message of the first failing rule as soon as
\* that rule is reached, goes on while no rule up to there fails, and issues
\* the create-project request only when every rule passes.
C13_FirstFailingRuleWins ==
    [][ /\ submitClicks' = submitClicks + 1 =>
            LET first == FirstFailingRule(formData, "none", "none") IN
            IF first \in { "Project name is required", "Project symbol is required",
                           "Project symbol must be 10 characters or less" }
                THEN /\ submitCalls'[submitClicks'] = EndRun("invalid")
                     /\ homeMessage' = Msg(first, "error")
                ELSE submitCalls'[submitClicks'].pc # "done"
        /\ \A id \in SubmitIds :
            /\ (submitCalls[id].pc = "nameWait" /\ submitCalls'[id] # submitCalls[id]) =>
                    IF submitCalls[id].nameAnswer = "false"
                        THEN /\ submitCalls'[id] = EndRun("invalid")
                             /\ homeMessage' = Msg("Project name is already taken. Please choose a different name.", "error")
                        ELSE submitCalls'[id].pc # "done"
            /\ (submitCalls[id].pc = "symbolWait" /\ submitCalls'[id] # submitCalls[id]) =>
                    LET first == FirstFailingRule(submitCalls[id].form,
                                                  submitCalls[id].nameAnswer,
                                                  submitCalls[id].symbolAnswer)
                    IN  IF first # ""
                            THEN /\ submitCalls'[id] = EndRun("invalid")
                                 /\ homeMessage' = Msg(first, "error")
                            ELSE submitCalls'[id].pc = "creating" ]_vars

\* C14: the availability verdict shown for the project name (and symbol) is
\* never stale: a change of the input text makes the verdict unknown, and a
\* verdict that becomes available or taken is the answer to a request made
\* for the text that is in the input.
C14_VerdictNeverStale ==
    [][ /\ formData'.projectName # formData.projectName => projectNameAvailable' = "null"
        /\ formData'.projectSymbol # formData.projectSymbol => projectSymbolAvailable' = "null"
        /\ (/\ projectNameAvailable' # projectNameAvailable
            /\ projectNameAvailable' \in {"true", "false"}) =>
                \E id \in SubmitIds :
                    /\ submitCalls[id].pc \in {"nameCheck", "creating"}
                    /\ submitCalls'[id] # submitCalls[id]
                    /\ submitCalls[id].form.projectName = formData'.projectName
        /\ (/\ projectSymbolAvailable' # projectSymbolAvailable
            /\ projectSymbolAvailable' \in {"true", "false"}) =>
                \E id \in SubmitIds :
                    /\ submitCalls[id].pc \in {"symbolCheck", "creating"}
                    /\ submitCalls'[id] # submitCalls[id]
                    /\ submitCalls[id].form.projectSymbol = formData'.projectSymbol ]_vars

\* C15: an availability check that fails (the request is rejected or its
\* answer cannot be parsed) sets the verdict to unknown, never to available;
\* and each checking flag is true exactly while a request of its kind is in
\* flight, false again once it has completed or failed.
C15_FailedCheckIsUnknown ==
    [][ /\ \A id \in SubmitIds :
            /\ (/\ submitCalls[id].pc = "nameCheck"
                /\ submitCalls'[id].pc = "nameWait"
                /\ submitCalls'[id].nameAnswer = "failed") => projectNameAvailable' = "null"
            /\ (/\ submitCalls[id].pc = "symbolCheck"
                /\ submitCalls'[id].pc = "symbolWait"
                /\ submitCalls'[id].symbolAnswer = "failed") => projectSymbolAvailable' = "null"
        /\ checkingProjectName' <=> (\E id \in SubmitIds : submitCalls'[id].pc = "nameCheck")
        /\ checkingProjectSymbol' <=> (\E id \in SubmitIds : submitCalls'[id].pc = "symbolCheck") ]_vars

\* the runs of handleSubmit whose create-project request is outstanding
CreatingRuns == { id \in SubmitIds : submitCalls[id].pc = "creating" }

\* C17: while a create-project request is outstanding the submit control is
\* disabled, and two create-project requests are never in flight at the same
\* time, also when the control is clicked again while validateForm waits.
C17_OneCreateRequest ==
    /\ CreatingRuns # {} => ~SubmitButtonEnabled
    /\ Cardinality(CreatingRuns) <= 1

\* ------------------------------- the availability checks called on their own

\* the texts the two checks are called with
CheckTexts == { <<>>, <<" ">>, <<"a">>, <<" ", "a", " ">>, <<"a", "b">>, <<"T">> }

\* the verdict states of a render
Verdicts == {"null", "true", "false"}

\* lines 123-152 up to the fetch: checkProjectNameAvailability(text)
CheckProjectNameAvailability(text) ==
    /\ submitClicks < MaxSubmits
    /\ submitClicks' = submitClicks + 1
    /\ CheckProjectNameStarts(submitClicks + 1,
            [pc |-> "start", form |-> [EmptyForm EXCEPT !.projectName = text],
             nameAvail |-> projectNameAvailable, symbolAvail |-> projectSymbolAvailable,
             nameAnswer |-> "none", symbolAnswer |-> "none"])
    /\ UNCHANGED << submitting, homeMessage, formData, projectSymbolAvailable,
                    checkingProjectSymbol, inputChanges, mintVars, authVars, routeVars,
                    loginVars, listVars, callVars >>

\* lines 92-121 up to the fetch: checkProjectSymbolAvailability(text)
CheckProjectSymbolAvailability(text) ==
    /\ submitClicks < MaxSubmits
    /\ submitClicks' = submitClicks + 1
    /\ CheckProjectSymbolStarts(submitClicks + 1,
            [pc |-> "start", form |-> [EmptyForm EXCEPT !.projectSymbol = text],
             nameAvail |-> projectNameAvailable, symbolAvail |-> projectSymbolAvailable,
             nameAnswer |-> "none", symbolAnswer |-> "none"])
    /\ UNCHANGED << submitting, homeMessage, formData, projectNameAvailable,
                    checkingProjectName, inputChanges, mintVars, authVars, routeVars,
                    loginVars, listVars, callVars >>

\* ProjectView as constructed, for the specifications of the other components
MintInitial ==
    /\ project = NullProject /\ loading = TRUE /\ minting = FALSE /\ mintAmount = 1
    /\ message = NoMessage /\ txHash = None /\ isConnected = FALSE
    /\ walletAddress = NoAddress /\ chainId = Polygon /\ basePrice = None
    /\ publicSaleCost \in OnChainPrices /\ hash = None /\ writeContractError = None
    /\ pendingWrites = {} /\ receipt = [h \in TxIds |-> "none"] /\ mintCalls = <<>>
    /\ fetchPending = 1 /\ mintClicks = 0 /\ writeCalls = 0

\* Home with a session; the verdicts are whatever earlier checks left
InitCheck ==
    /\ LoginFormInitial /\ ListInitial /\ CallsInitial
    /\ submitting = FALSE
    /\ homeMessage = NoMessage
    /\ formData = EmptyForm
    /\ projectNameAvailable \in Verdicts
    /\ projectSymbolAvailable \in Verdicts
    /\ checkingProjectName = FALSE
    /\ checkingProjectSymbol = FALSE
    /\ submitCalls = [id \in SubmitIds |-> NoRun]
    /\ submitClicks = 0
    /\ inputChanges = 0
    /\ \E a \in ArtistSamples : SessionLoggedIn(a)
    /\ RouterInitial
    /\ MintInitial

NextCheck ==
    \/ \E text \in CheckTexts : CheckProjectNameAvailability(text)
    \/ \E text \in CheckTexts : CheckProjectSymbolAvailability(text)
    \/ \E id \in SubmitIds, answer \in CheckAnswers : CheckProjectNameCompletes(id, answer)
    \/ \E id \in SubmitIds, answer \in CheckAnswers : CheckProjectSymbolCompletes(id, answer)

SpecCheck == InitCheck /\ [][NextCheck]_vars

\* C16: a check called with a text that is too short (a project name of fewer
\* than two characters after trimming, a symbol that is empty after trimming)
\* sets its verdict to unknown and sends no request.
C16_TooShortIsUnknownNoRequest ==
    [][ \A id \in SubmitIds :
            /\ (/\ submitCalls[id].pc = "none"
                /\ submitCalls'[id].pc \in {"nameCheck", "nameWait"}
                /\ Len(Trim(submitCalls'[id].form.projectName)) < 2) =>
                    /\ projectNameAvailable' = "null"
                    /\ submitCalls'[id].pc = "nameWait"
                    /\ submitCalls'[id].nameAnswer = "none"
                    /\ checkingProjectName' = checkingProjectName
            /\ (/\ submitCalls[id].pc \in {"none", "nameWait"}
                /\ submitCalls'[id].pc \in {"symbolCheck", "symbolWait"}
                /\ Len(Trim(submitCalls'[id].form.projectSymbol)) < 1) =>
                    /\ projectSymbolAvailable' = "null"
                    /\ submitCalls'[id].pc = "symbolWait"
                    /\ submitCalls'[id].symbolAnswer = "none"
                    /\ checkingProjectSymbol' = checkingProjectSymbol ]_vars

\* both checks were called with a too-short text while their verdicts were
\* set: no request was sent and the verdicts are unknown
C16_Witness ==
    \E i, j \in SubmitIds :
        /\ submitCalls[i].pc = "nameWait"
        /\ submitCalls[i].nameAnswer = "none"
        /\ submitCalls[i].nameAvail = "true"
        /\ Len(Trim(submitCalls[i].form.projectName)) = 1
        /\ submitCalls[j].pc = "symbolWait"
        /\ submitCalls[j].symbolAnswer = "none"
        /\ submitCalls[j].symbolAvail = "true"
        /\ Trim(submitCalls[j].form.projectSymbol) = <<>>
        /\ projectNameAvailable = "null"
        /\ projectSymbolAvailable = "null"

\* ------------------------------------------------------------------------
\* Part 3: the view router ProjectsApp (ProjectsApp.tsx, lines 11-163)
\* Texts are sequences of characters; the only white space followed is the
\* blank.
\* ------------------------------------------------------------------------

\* clicks on a project followed in one behaviour
MaxProjectClicks == 2

UpperCase == <<"A", "B", "C", "D", "E", "F", "G", "H", "I", "J", "K", "L", "M", "N", "O", "P", "Q", "R", "S", "T", "U", "V", "W", "X", "Y", "Z", "É">>
LowerCase == <<"a", "b", "c", "d", "e", "f", "g", "h", "i", "j", "k", "l", "m", "n", "o", "p", "q", "r", "s", "t", "u", "v", "w", "x", "y", "z", "é">>

\* String.prototype.toLowerCase and toUpperCase, for one character
ToLower(c) ==
    IF \E i \in 1..Len(UpperCase) : UpperCase[i] = c
        THEN LowerCase[CHOOSE i \in 1..Len(UpperCase) : UpperCase[i] = c]
        ELSE c

ToUpper(c) ==
    IF \E i \in 1..Len(LowerCase) : LowerCase[i] = c
        THEN UpperCase[CHOOSE i \in 1..Len(LowerCase) : LowerCase[i] = c]
        ELSE c

\* the characters \w, \s and - of the pattern of line 16; \w has the letters
\* A to Z and a to z only
SlugChars ==
    { UpperCase[i] : i \in 1..26 } \cup { LowerCase[i] : i \in 1..26 }
        \cup { "0", "1", "2", "3", "4", "5", "6", "7", "8", "9", "_", " ", "-" }

IsSlugChar(c) == c \in SlugChars

\* replace(/c+/g, by) for the characters c of set
RECURSIVE ReplaceRuns(_, _, _)
ReplaceRuns(s, set, by) ==
    IF s = <<>> THEN <<>>
    ELSE IF Head(s) \notin set THEN <<Head(s)>> \o ReplaceRuns(Tail(s), set, by)
    ELSE IF Len(s) > 1 /\ s[2] \in set THEN ReplaceRuns(Tail(s), set, by)
    ELSE <<by>> \o ReplaceRuns(Tail(s), set, by)

\* createSlug with the characters outside the pattern removed last, after
\* the white space and the hyphens were replaced
createSlug_StripLast(name) ==
    LET lower == [i \in 1..Len(name) |-> ToLower(name[i])]
    IN  SelectSeq(ReplaceRuns(ReplaceRuns(Trim(lower), {" "}, "-"), {"-"}, "-"), IsSlugChar)

\* lines 12-19
createSlug(name) ==
    LET lower == [i \in 1..Len(name) |-> ToLower(name[i])]
        kept == SelectSeq(Trim(lower), IsSlugChar)
    IN  ReplaceRuns(ReplaceRuns(kept, {" "}, "-"), {"-"}, "-")

\* String.prototype.split(sep) for a separator of one character
RECURSIVE SplitOn(_, _)
SplitOn(s, sep) ==
    IF \A i \in 1..Len(s) : s[i] # sep THEN <<s>>
    ELSE LET i == CHOOSE k \in 1..Len(s) : s[k] = sep /\ \A j \in 1..(k - 1) : s[j] # sep
         IN  <<SubSeq(s, 1, i - 1)>> \o SplitOn(SubSeq(s, i + 1, Len(s)), sep)

\* Array.prototype.join(sep)
RECURSIVE Join(_, _)
Join(parts, sep) ==
    IF parts = <<>> THEN <<>>
    ELSE IF Len(parts) = 1 THEN parts[1]
    ELSE parts[1] \o <<sep>> \o Join(Tail(parts), sep)

\* line 25: word.charAt(0).toUpperCase() + word.slice(1)
Capitalize(word) ==
    IF word = <<>> THEN <<>> ELSE <<ToUpper(Head(word))>> \o Tail(word)

\* lines 21-27
decodeSlug(slug) ==
    LET spaced == [i \in 1..Len(slug) |-> IF slug[i] = "-" THEN " " ELSE slug[i]]
        words == SplitOn(spaced, " ")
    IN  Join([i \in 1..Len(words) |-> Capitalize(words[i])], " ")

NonEmptyPart(p) == p # <<>>

\* lines 101-102 and 141-142: path.split('/').filter(p => p)
PathParts(path) == SelectSeq(SplitOn(path, "/"), NonEmptyPart)

ProjectsSegment == <<"p", "r", "o", "j", "e", "c", "t", "s">>

\* the test of line 104 without the length
IsProjectPath_FirstSegmentOnly(parts) == Len(parts) >= 1 /\ parts[1] = ProjectsSegment

\* line 104: the test of the mount effect
IsProjectPath(parts) == Len(parts) = 3 /\ parts[1] = ProjectsSegment

\* lines 141-144, for the path read by the render: decodeSlug of the
\* segment, or null
artistName(path) ==
    IF Len(PathParts(path)) = 3 THEN Some(decodeSlug(PathParts(path)[2])) ELSE None

projectName(path) ==
    IF Len(PathParts(path)) = 3 THEN Some(decodeSlug(PathParts(path)[3])) ELSE None

\* a string that is neither null nor empty
TruthyText(o) == IsSome(o) /\ The(o) # <<>>

GalleryScreen == [screen |-> "GalleryView", artistName |-> <<>>, projectName |-> <<>>]

ProjectScreen(artist, name) ==
    [screen |-> "ProjectView", artistName |-> artist, projectName |-> name]

\* lines 146-162: what ProjectsApp renders with view v at the address path
Rendered(v, path) ==
    IF v = "project" /\ TruthyText(artistName(path)) /\ TruthyText(projectName(path))
        THEN ProjectScreen(The(artistName(path)), The(projectName(path)))
        ELSE GalleryScreen

\* what is on the screen
Screen == Rendered(view, pathname)

\* the projects GET /api/public/projects lists, by the two names
Listing ==
    { [artistName |-> <<"J", "a", "n", "e", " ", "D", "o", "e">>, projectName |-> <<"M", "y", " ", "A", "r", "t">>],
      [artistName |-> <<"!", "!", "!">>, projectName |-> <<"A", "r", "t">>],
      [artistName |-> <<"A", " ", "&", " ", "B">>, projectName |-> <<"N", "o", ".", " ", "1">>],
      [artistName |-> <<"J", "a", "n", "e", " ", "D", "o", "e">>, projectName |-> <<"?">>] }

\* the addresses the routes of App.tsx (lines 35-36) hand to ProjectsApp
PathSamples ==
    { <<"/", "p", "r", "o", "j", "e", "c", "t", "s">>,
      <<"/", "p", "r", "o", "j", "e", "c", "t", "s", "/">>,
      <<"/", "p", "r", "o", "j", "e", "c", "t", "s", "/", "j", "a", "n", "e", "-", "d", "o", "e", "/", "m", "y", "-", "a", "r", "t">>,
      <<"/", "p", "r", "o", "j", "e", "c", "t", "s", "/", "a", "-", "b", "/", "n", "o", "-", "1", "/">> }

\* lines 100-109: the mount effect
MountEffect ==
    /\ ~appMounted
    /\ appMounted' = TRUE
    /\ IF IsProjectPath(PathParts(pathname))
        THEN view' = "project" /\ UNCHANGED projectsFetch
        ELSE projectsFetch' = projectsFetch + 1 /\ UNCHANGED view
    /\ UNCHANGED << pathname, projects, galleryLoading, projectClicks,
                    mintVars, formVars, authVars,
                    loginVars, listVars, callVars >>

\* fetchProjects without its finally block: loading is cleared only by a
\* successful answer
FetchProjectsCompletes_NoFinally(answer) ==
    /\ projectsFetch > 0
    /\ projectsFetch' = projectsFetch - 1
    /\ projects' = IF IsSome(answer) THEN The(answer) ELSE projects
    /\ galleryLoading' = IF IsSome(answer) THEN FALSE ELSE galleryLoading
    /\ UNCHANGED << view, pathname, appMounted, projectClicks,
                    mintVars, formVars, authVars,
                    loginVars, listVars, callVars >>

\* lines 111-123: the answer to a request of fetchProjects: the projects
\* listed at that time, or none when the request fails
FetchProjectsCompletes(answer) ==
    /\ projectsFetch > 0
    /\ projectsFetch' = projectsFetch - 1
    /\ projects' = IF IsSome(answer) THEN The(answer) ELSE projects
    /\ galleryLoading' = FALSE
    /\ UNCHANGED << view, pathname, appMounted, projectClicks,
                    mintVars, formVars, authVars,
                    loginVars, listVars, callVars >>

\* lines 125-132, from a card of the gallery (lines 166-179, 205)
HandleProjectClick(p) ==
    /\ appMounted
    /\ Screen = GalleryScreen
    /\ ~galleryLoading
    /\ p \in projects
    /\ projectClicks < MaxProjectClicks
    /\ projectClicks' = projectClicks + 1
    /\ view' = "project"
    /\ pathname' = <<"/">> \o ProjectsSegment \o <<"/">> \o createSlug(p.artistName)
                        \o <<"/">> \o createSlug(p.projectName)
    /\ UNCHANGED << projects, galleryLoading, appMounted, projectsFetch,
                    mintVars, formVars, authVars,
                    loginVars, listVars, callVars >>

\* lines 134-139, from ProjectView's onBack
HandleBackToGallery ==
    /\ appMounted
    /\ Screen.screen = "ProjectView"
    /\ view' = "gallery"
    /\ galleryLoading' = TRUE
    /\ projectsFetch' = projectsFetch + 1
    /\ pathname' = <<"/">> \o ProjectsSegment
    /\ UNCHANGED << projects, appMounted, projectClicks, mintVars, formVars, authVars,
                    loginVars, listVars, callVars >>

InitRouter ==
    /\ LoginFormInitial /\ ListInitial /\ CallsInitial
    /\ view = "gallery"
    /\ pathname \in PathSamples
    /\ projects = {}
    /\ galleryLoading = TRUE
    /\ appMounted = FALSE
    /\ projectsFetch = 0
    /\ projectClicks = 0
    /\ MintInitial
    /\ FormInitial
    /\ SessionInitial

NextRouter ==
    \/ MountEffect
    \/ \E answer \in {None} \cup { Some(l) : l \in SUBSET Listing } :
            FetchProjectsCompletes(answer)
    \/ \E p \in Listing : HandleProjectClick(p)
    \/ HandleBackToGallery

SpecRouter == InitRouter /\ [][NextRouter]_vars

\* C19: the mount effect derives the view from the address: for a path of
\* three segments whose first is 'projects' ProjectView is rendered with
\* decodeSlug of the second and third segment and nothing is fetched
\* (/projects/jane-doe/my-art gives 'Jane Doe' and 'My Art'); for every other
\* path the gallery is rendered and the listing is requested.
C19_InitialViewFromPath ==
    [][ (~appMounted /\ appMounted') =>
            LET parts == PathParts(pathname)
            IN  /\ IF Len(parts) = 3 /\ parts[1] = ProjectsSegment
                    THEN /\ Rendered(view', pathname') = ProjectScreen(decodeSlug(parts[2]), decodeSlug(parts[3]))
                         /\ projectsFetch' = projectsFetch
                    ELSE /\ Rendered(view', pathname') = GalleryScreen
                         /\ projectsFetch' = projectsFetch + 1
                /\ pathname = <<"/", "p", "r", "o", "j", "e", "c", "t", "s", "/", "j", "a", "n", "e", "-", "d", "o", "e", "/", "m", "y", "-", "a", "r", "t">> =>
                        Rendered(view', pathname') = ProjectScreen(<<"J", "a", "n", "e", " ", "D", "o", "e">>, <<"M", "y", " ", "A", "r", "t">>) ]_vars

\* the page was opened at /projects/jane-doe/my-art and, with no click, shows
\* the project 'My Art' of 'Jane Doe'
C19_Witness ==
    /\ appMounted
    /\ projectClicks = 0
    /\ projectsFetch = 0
    /\ pathname = <<"/", "p", "r", "o", "j", "e", "c", "t", "s", "/", "j", "a", "n", "e", "-", "d", "o", "e", "/", "m", "y", "-", "a", "r", "t">>
    /\ Screen = ProjectScreen(<<"J", "a", "n", "e", " ", "D", "o", "e">>, <<"M", "y", " ", "A", "r", "t">>)

\* C20: a click on a project of the gallery sets the address to
\* /projects/<createSlug(artistName)>/<createSlug(projectName)> and ProjectView
\* is rendered with the decoded pair of names, whatever the two names are.
C20_ClickShowsProject ==
    [][ projectClicks' # projectClicks =>
            \E p \in projects :
                /\ pathname' = <<"/">> \o ProjectsSegment \o <<"/">> \o createSlug(p.artistName)
                                    \o <<"/">> \o createSlug(p.projectName)
                /\ Rendered(view', pathname') = ProjectScreen(decodeSlug(createSlug(p.artistName)),
                                             decodeSlug(createSlug(p.projectName))) ]_vars

\* every request of fetchProjects is answered or fails in the end
SpecRouterFair ==
    SpecRouter /\ WF_vars(\E answer \in {None} \cup { Some(l) : l \in SUBSET Listing } :
                                FetchProjectsCompletes(answer))

\* C21: going back from ProjectView sets the address to /projects, the view to
\* the gallery and the loading flag, and sends a new request for the listing;
\* the loading flag stays set while a request for the listing is unanswered
\* and is cleared in the end, whether the request succeeds or fails.
C21_BackRefetchesListing ==
    /\ [][ (view = "project" /\ view' = "gallery") =>
                /\ pathname' = <<"/">> \o ProjectsSegment
                /\ projectsFetch' = projectsFetch + 1
                /\ galleryLoading' ]_vars
    /\ [](projectsFetch > 0 => galleryLoading)
    /\ ((projectsFetch > 0) ~> (projectsFetch = 0 /\ ~galleryLoading))

\* the gallery had listed projects, a project was opened and left again, and
\* the listing is being fetched anew
C21_Witness ==
    /\ view = "gallery"
    /\ pathname = <<"/">> \o ProjectsSegment
    /\ projectClicks > 0
    /\ projects # {}
    /\ galleryLoading
    /\ projectsFetch = 1

\* ------------------------------------------------------------------------
\* Part 4: the functions on texts, applied on their own: createSlug and
\* decodeSlug (ProjectsApp.tsx, lines 12-27; part_002, lines 2-18) and
\* validateMobile (part_001, lines 583-590)
\* ------------------------------------------------------------------------

MaxNameLen == 3       \* longest generated name
MaxCalls == 2         \* functions applied one after the other
MaxDigits == 16       \* most digits of a generated mobile number

DigitChars == <<"0", "1", "2", "3", "4", "5", "6", "7", "8", "9">>

IsDigitChar(c) == \E i \in 1..Len(DigitChars) : DigitChars[i] = c

\* the validator without the upper limit of line 588
validateMobile_NoUpperLimit(mobile) ==
    IF mobile = <<>> THEN "Mobile number is required"
    ELSE IF Len(SelectSeq(mobile, IsDigitChar)) < 10 THEN "Please enter a valid mobile number"
    ELSE ""

\* part_001, lines 583-590
validateMobile(mobile) ==
    IF mobile = <<>> THEN "Mobile number is required"
    ELSE LET digitsOnly == SelectSeq(mobile, IsDigitChar)
         IN  IF Len(digitsOnly) < 10 THEN "Please enter a valid mobile number"
             ELSE IF Len(digitsOnly) > 15 THEN "Phone number cannot exceed 15 digits"
             ELSE ""

\* the characters names are generated from
NameAlphabet == {"A", "b", " ", "-", "!", "1", "é"}

\* n digits
DigitsOf(n) == [i \in 1..n |-> DigitChars[(i % 10) + 1]]

\* the texts the functions are applied to: every name of up to MaxNameLen
\* characters, some longer names, and mobile numbers of 0 to MaxDigits digits,
\* bare and as they are typed
CallInputs ==
    UNION { [1..k -> NameAlphabet] : k \in 0..MaxNameLen }
        \cup { <<"J", "a", "n", "e", " ", "D", "o", "e">>, <<"j", "A", "N", "E", " ", "2", "d">>,
               <<"Z", "o", "é", " ", "B">> }
        \cup { DigitsOf(n) : n \in 0..MaxDigits }
        \cup { <<"+">> \o DigitsOf(n) : n \in 0..MaxDigits }
        \cup { <<"(">> \o DigitsOf(n) \o <<")", " ", "-", "x">> : n \in 0..MaxDigits }

\* what the next function is applied to
CallArgument == IF callTrace = <<>> THEN callInput ELSE callTrace[Len(callTrace)].result

ApplyCreateSlug ==
    /\ Len(callTrace) < MaxCalls
    /\ callTrace' = Append(callTrace, [fn |-> "createSlug", result |-> createSlug(CallArgument)])
    /\ UNCHANGED << callInput, callMessage, mintVars, formVars, authVars, routeVars,
                    loginVars, listVars >>

ApplyDecodeSlug ==
    /\ Len(callTrace) < MaxCalls
    /\ callTrace' = Append(callTrace, [fn |-> "decodeSlug", result |-> decodeSlug(CallArgument)])
    /\ UNCHANGED << callInput, callMessage, mintVars, formVars, authVars, routeVars,
                    loginVars, listVars >>

ApplyValidateMobile ==
    /\ callMessage = "none"
    /\ callMessage' = validateMobile(callInput)
    /\ UNCHANGED << callInput, callTrace, mintVars, formVars, authVars, routeVars,
                    loginVars, listVars >>

InitCalls ==
    /\ callInput \in CallInputs
    /\ callTrace = <<>>
    /\ callMessage = "none"
    /\ MintInitial /\ FormInitial /\ SessionInitial /\ RouterInitial
    /\ LoginFormInitial /\ ListInitial

NextCalls == ApplyCreateSlug \/ ApplyDecodeSlug \/ ApplyValidateMobile

SpecCalls == InitCalls /\ [][NextCalls]_vars

\* C23: createSlug applied to a result of createSlug gives that result again.
C23_CreateSlugIdempotent ==
    \A k \in 2..Len(callTrace) :
        (callTrace[k - 1].fn = "createSlug" /\ callTrace[k].fn = "createSlug") =>
            callTrace[k].result = callTrace[k - 1].result

\* createSlug was applied twice to a name it changes: blanks became a hyphen
\* and a character outside the pattern was removed
C23_Witness ==
    /\ callInput = <<"A", " ", "!">>
    /\ Len(callTrace) = 2
    /\ callTrace[1] = [fn |-> "createSlug", result |-> <<"a", "-">>]
    /\ callTrace[2] = [fn |-> "createSlug", result |-> <<"a", "-">>]

\* letters and digits
IsLetterOrDigit(c) ==
    \/ \E i \in 1..Len(UpperCase) : c = UpperCase[i] \/ c = LowerCase[i]
    \/ IsDigitChar(c)

\* a name of letters and digits in words, one blank between two words
IsPlainName(x) ==
    /\ \A i \in 1..Len(x) : IsLetterOrDigit(x[i]) \/ x[i] = " "
    /\ x # <<>> => (x[1] # " " /\ x[Len(x)] # " ")
    /\ \A i \in 1..(Len(x) - 1) : ~(x[i] = " " /\ x[i + 1] = " ")

\* a word in lower case with its first character in upper case
TitleCaseWord(w) ==
    [i \in 1..Len(w) |-> IF i = 1 THEN ToUpper(w[i]) ELSE ToLower(w[i])]

\* the words of a plain name in title case, one blank between two words
TitleCase(x) ==
    LET words == SplitOn(x, " ")
    IN  Join([i \in 1..Len(words) |-> TitleCaseWord(words[i])], " ")

\* C24: for a name of letters, digits and single blanks between words,
\* decodeSlug of createSlug of the name is the name in title case;
\* createSlug('Jane Doe') is 'jane-doe' and decodeSlug of it is 'Jane Doe'.
C24_DecodeOfSlugIsTitleCase ==
    (/\ Len(callTrace) = 2
     /\ callTrace[1].fn = "createSlug"
     /\ callTrace[2].fn = "decodeSlug"
     /\ IsPlainName(callInput)) =>
        /\ callTrace[2].result = TitleCase(callInput)
        /\ callInput = <<"J", "a", "n", "e", " ", "D", "o", "e">> =>
                /\ callTrace[1].result = <<"j", "a", "n", "e", "-", "d", "o", "e">>
                /\ callTrace[2].result = <<"J", "a", "n", "e", " ", "D", "o", "e">>

\* C25: validateMobile gives the empty text exactly for a text that is not
\* empty and has 10 to 15 digits; with fewer than 10 digits, as for '123', it
\* gives 'Please enter a valid mobile number'; '12345678901' is valid.
C25_ValidateMobile ==
    callMessage # "none" =>
        LET digits == Cardinality({ i \in 1..Len(callInput) : IsDigitChar(callInput[i]) })
        IN  /\ callMessage = "" <=> (callInput # <<>> /\ digits >= 10 /\ digits <= 15)
            /\ (callInput # <<>> /\ digits < 10) =>
                    callMessage = "Please enter a valid mobile number"
            /\ callInput = <<"1", "2", "3">> => callMessage = "Please enter a valid mobile number"
            /\ callInput = <<"1", "2", "3", "4", "5", "6", "7", "8", "9", "0", "1">> =>
                    callMessage = ""

\* a number typed with brackets and a hyphen, of fifteen digits, was accepted
C25_Witness ==
    /\ callMessage = ""
    /\ Len(callInput) > 15
    /\ Len(SelectSeq(callInput, IsDigitChar)) = 15

\* C27: once the confirmation effect has run for a transaction and cleared
\* txHash, txHash stays undefined and the confirmation handling does not run
\* again for that transaction while the write hook still holds its hash.
C27_ConfirmedOnce ==
    [][ /\ (/\ txHash = None
            /\ IsSome(hash)
            /\ receipt[The(hash)] = "success") => txHash' = None
        /\ (/\ IsSome(txHash)
            /\ receipt[The(txHash)] = "success") =>
                ~(txHash' = None /\ fetchPending' = fetchPending + 1) ]_vars

\* the wallet, the chain and the backend answer every request in the end, and
\* the effects and timers of ProjectView run
SpecFair ==
    /\ Spec
    /\ WF_vars(\E p \in ProjectSamples : FetchProjectOk(p))
    /\ WF_vars(MintAfterSwitch)
    /\ WF_vars(\E id \in TxIds : WriteContractSucceeds(id))
    /\ WF_vars(ReceiptSuccess \/ ReceiptReverted)
    /\ WF_vars(HashEffect)
    /\ WF_vars(ConfirmationEffect)

\* C28: after every mint that was handed to the wallet, minting becomes false
\* again and txHash undefined, whatever the wallet and the chain report.
C28_MintReturnsToIdle ==
    minting ~> (~minting /\ txHash = None)

\* ------------------------------------------------------------------------
\* Part 5: the session, the login form and the project list of Home
\* (part_001)
\* ------------------------------------------------------------------------

\* times the page is opened again
MaxReloads == 1

\* clicks on the submit button of the login form followed in one behaviour
MaxLoginClicks == 2

\* line 79
projectsPerPage == 6

\* line 578, and maxLength of line 870
MaxNameLength == 30

\* the artists the server knows
Artists == ArtistSamples \cup { [id |-> "artist-2"] }

\* what localStorage holds under 'artistData': nothing, an artist written by
\* an earlier login, or a text JSON.parse rejects
StoredSamples ==
    {None} \cup { StoredArtist(a) : a \in Artists }
           \cup { Some([valid |-> FALSE, artist |-> [id |-> ""]]) }

\* the artistId parameter of the address the page is opened with
UrlArtistIds == {None, Some("artist-2")}

\* what GET /api/artists/:id, login and register answer: success, an answer
\* that is not a success, or a request that fails
SessionAnswers == {"ok", "rejected", "failed"}

\* lines 784-792: which screen Home renders
HomeScreen ==
    IF homeLoading THEN "loading"
    ELSE IF ~isAuthenticated THEN "LoggedOut"
    ELSE "Authenticated"

\* lines 981, 869: disabled={isLoggingIn}; isLoggingIn is true from the
\* request of handleLogin or handleRegister to its finally block
isLoggingIn == loginRequest # "none"

\* ------------------------------------------------- the validators

\* [a-zA-Z]
IsAsciiLetter(c) == \E i \in 1..26 : c = UpperCase[i] \/ c = LowerCase[i]

\* [a-zA-Z0-9._%+-]
IsLocalChar(c) == IsAsciiLetter(c) \/ IsDigitChar(c) \/ c \in {".", "_", "%", "+", "-"}

\* [a-zA-Z0-9.-]
IsDomainChar(c) == IsAsciiLetter(c) \/ IsDigitChar(c) \/ c \in {".", "-"}

\* line 570: /^[a-zA-Z0-9._%+-]+@[a-zA-Z0-9.-]+\.[a-zA-Z]{2,}$/ .test(email)
emailRegex(email) ==
    \E at \in 1..Len(email), dot \in 1..Len(email) :
        /\ email[at] = "@"
        /\ email[dot] = "."
        /\ at > 1
        /\ dot > at + 1
        /\ Len(email) - dot >= 2
        /\ \A i \in 1..(at - 1) : IsLocalChar(email[i])
        /\ \A i \in (at + 1)..(dot - 1) : IsDomainChar(email[i])
        /\ \A i \in (dot + 1)..Len(email) : IsAsciiLetter(email[i])

\* lines 569-574
validateEmail(email) ==
    IF email = <<>> THEN "Email is required"
    ELSE IF ~emailRegex(email) THEN "Please enter a valid email address"
    ELSE ""

\* lines 576-581
validateName(name) ==
    IF name = <<>> THEN "Name is required"
    ELSE IF Len(name) > MaxNameLength THEN "Name must be 30 characters or less"
    ELSE IF Len(name) < 2 THEN "Name must be at least 2 characters"
    ELSE ""

validatePassword_NonEmptyOnly(password) ==
    IF password = <<>> THEN "Password is required" ELSE ""

\* lines 592-596
validatePassword(password) ==
    IF password = <<>> THEN "Password is required"
    ELSE IF Len(password) < 6 THEN "Password must be at least 6 characters"
    ELSE ""

\* lines 657-677: the errors validateLoginForm finds, and its result
LoginErrors(form, login) ==
    (IF login THEN {} ELSE {validateName(form.name), validateMobile(form.mobile)})
        \cup {validateEmail(form.email), validatePassword(form.password)}

validateLoginForm == \A error \in LoginErrors(loginFormData, isLogin) : error = ""

\* texts typed into the inputs of the login form
Text31 == [i \in 1..(MaxNameLength + 1) |-> "x"]
NameTexts == { <<"J">>, <<"J", "o">>, Text31 }
EmailTexts == { <<"a", "@", "b">>, <<"a", "@", "b", ".", "c", "o">> }
PasswordTexts == { DigitsOf(5), DigitsOf(6) }
MobileTexts == { <<>>, DigitsOf(3), <<"+">> \o DigitsOf(11) }

LoginInputs ==
    ({"name"} \X NameTexts) \cup ({"email"} \X EmailTexts)
        \cup ({"password"} \X PasswordTexts)

\* ------------------------------------------------- the mount effect

\* lines 259-294 and 310: the mount effect, checkAuth
CheckAuth ==
    /\ ~homeMounted
    /\ homeMounted' = TRUE
    /\ IF IsSome(urlArtistId) THEN
            \* fetchArtistData(artistIdFromUrl); replaceState; return
            /\ artistFetch' = urlArtistId
            /\ urlArtistId' = None
            /\ UNCHANGED << artistData, isAuthenticated, homeLoading, projectsFetches >>
       ELSE IF IsSome(storedArtistData) /\ The(storedArtistData).valid THEN
            /\ artistData' = Some(The(storedArtistData).artist)
            /\ isAuthenticated' = TRUE
            /\ projectsFetches' =
                    IF Truthy(The(storedArtistData).artist.id)
                        THEN FetchUserProjects(The(storedArtistData).artist.id)
                        ELSE projectsFetches
            /\ homeLoading' = FALSE
            /\ UNCHANGED << artistFetch, urlArtistId >>
       ELSE
            \* nothing stored, or JSON.parse throws
            /\ homeLoading' = FALSE
            /\ UNCHANGED << artistData, isAuthenticated, artistFetch, urlArtistId,
                            projectsFetches >>
    /\ UNCHANGED << storedArtistData, loginRequest, loginMessage, reloads,
                    userProjects, activeTab, currentPage, loginTimers,
                    mintVars, formVars, routeVars, loginVars, callVars >>

\* lines 295-308: the answer to fetchArtistData's request
FetchArtistDataCompletes(answer) ==
    /\ IsSome(artistFetch)
    /\ artistFetch' = None
    /\ homeLoading' = FALSE
    /\ IF answer = "ok" THEN
            LET artist == [id |-> The(artistFetch)]
            IN  /\ storedArtistData' = StoredArtist(artist)
                /\ artistData' = Some(artist)
                /\ isAuthenticated' = TRUE
                /\ projectsFetches' = FetchUserProjects(artist.id)
       ELSE UNCHANGED << storedArtistData, artistData, isAuthenticated, projectsFetches >>
    /\ UNCHANGED << urlArtistId, homeMounted, loginRequest, loginMessage, reloads,
                    userProjects, activeTab, currentPage, loginTimers,
                    mintVars, formVars, routeVars, loginVars, callVars >>

\* ------------------------------------------------- the login form

\* lines 608-632, from the inputs of lines 863-871, 891-897 and 952-958; the
\* name input is rendered in register mode only (line 853)
HandleLoginInputChange(name, value) ==
    /\ HomeScreen = "LoggedOut"
    /\ ~isLoggingIn
    /\ name = "name" => ~isLogin
    /\ IF name = "name" /\ Len(value) > MaxNameLength
        THEN UNCHANGED << loginFormData, loginMessage >>
        ELSE /\ loginFormData' = [loginFormData EXCEPT ![name] = value]
             /\ loginMessage' = ""
    /\ UNCHANGED << artistData, isAuthenticated, homeLoading, storedArtistData,
                    urlArtistId, homeMounted, artistFetch, loginRequest, reloads,
                    isLogin, loginClicks, loginRequests,
                    mintVars, formVars, routeVars, listVars, callVars >>

\* lines 634-655, from the PhoneInput of lines 920-931 (register mode only,
\* line 907)
HandleMobileChange(value) ==
    /\ HomeScreen = "LoggedOut"
    /\ ~isLoggingIn
    /\ ~isLogin
    /\ loginFormData' = [loginFormData EXCEPT !.mobile = value]
    /\ loginMessage' = ""
    /\ UNCHANGED << artistData, isAuthenticated, homeLoading, storedArtistData,
                    urlArtistId, homeMounted, artistFetch, loginRequest, reloads,
                    isLogin, loginClicks, loginRequests,
                    mintVars, formVars, routeVars, listVars, callVars >>

\* lines 1000-1003: the button that changes between login and register
ToggleLoginMode ==
    /\ HomeScreen = "LoggedOut"
    /\ ~isLoggingIn
    /\ isLogin' = ~isLogin
    \* resetLoginForm, lines 686-697
    /\ loginFormData' = EmptyLoginForm
    /\ loginMessage' = ""
    /\ UNCHANGED << artistData, isAuthenticated, homeLoading, storedArtistData,
                    urlArtistId, homeMounted, artistFetch, loginRequest, reloads,
                    loginClicks, loginRequests,
                    mintVars, formVars, routeVars, listVars, callVars >>

\* lines 699-716, from the submit button in login mode (line 980)
HandleLogin ==
    /\ HomeScreen = "LoggedOut"
    /\ ~isLoggingIn
    /\ isLogin
    /\ loginClicks < MaxLoginClicks
    /\ loginClicks' = loginClicks + 1
    /\ IF validateLoginForm
        THEN /\ loginRequest' = "login"
             /\ loginRequests' = loginRequests + 1
             /\ loginMessage' = "Logging in..."
        ELSE /\ loginMessage' = "Please fix the errors above"
             /\ UNCHANGED << loginRequest, loginRequests >>
    /\ UNCHANGED << artistData, isAuthenticated, homeLoading, storedArtistData,
                    urlArtistId, homeMounted, artistFetch, reloads,
                    loginFormData, isLogin,
                    mintVars, formVars, routeVars, listVars, callVars >>

LoginCompletes_RetriesOnFailure(answer, artist) ==
    /\ loginRequest = "login"
    /\ IF answer = "failed"
        THEN /\ loginRequests' = loginRequests + 1
             /\ UNCHANGED << loginRequest, loginMessage, storedArtistData, artistData,
                             isAuthenticated, loginTimers >>
        ELSE /\ loginRequest' = "none"
             /\ loginMessage' = "Login failed"
             /\ UNCHANGED << loginRequests, storedArtistData, artistData,
                             isAuthenticated, loginTimers >>
    /\ UNCHANGED << homeLoading, urlArtistId, homeMounted, artistFetch, reloads,
                    userProjects, activeTab, currentPage, projectsFetches,
                    loginFormData, isLogin, loginClicks,
                    mintVars, formVars, routeVars, callVars >>

\* lines 718-741: the answer to the login request
LoginCompletes(answer, artist) ==
    /\ loginRequest = "login"
    /\ loginRequest' = "none"
    /\ IF answer = "ok" THEN
            /\ loginMessage' = "Login successful! Loading dashboard..."
            /\ storedArtistData' = StoredArtist(artist)
            /\ artistData' = Some(artist)
            /\ isAuthenticated' = TRUE
            \* setTimeout(..., 1500), line 727
            /\ loginTimers' = loginTimers \cup {[kind |-> "login", artist |-> artist.id]}
       ELSE /\ loginMessage' = (IF answer = "rejected" THEN "Login failed"
                    ELSE "Login failed. Please check your connection and try again.")
            /\ UNCHANGED << storedArtistData, artistData, isAuthenticated, loginTimers >>
    /\ UNCHANGED << homeLoading, urlArtistId, homeMounted, artistFetch, reloads,
                    userProjects, activeTab, currentPage, projectsFetches,
                    mintVars, formVars, routeVars, loginVars, callVars >>

\* lines 727-732: the timer of a successful login fires
LoginTimerFires(artistId) ==
    /\ [kind |-> "login", artist |-> artistId] \in loginTimers
    /\ loginTimers' = loginTimers \ {[kind |-> "login", artist |-> artistId]}
    \* resetLoginForm, lines 686-697
    /\ loginFormData' = EmptyLoginForm
    /\ loginMessage' = ""
    /\ projectsFetches' = FetchUserProjects(artistId)
    /\ homeLoading' = FALSE
    /\ UNCHANGED << artistData, isAuthenticated, storedArtistData,
                    urlArtistId, homeMounted, artistFetch, loginRequest, reloads,
                    isLogin, loginClicks, loginRequests,
                    userProjects, activeTab, currentPage,
                    mintVars, formVars, routeVars, callVars >>

\* lines 744-763, from the submit button in register mode (line 980)
HandleRegister ==
    /\ HomeScreen = "LoggedOut"
    /\ ~isLoggingIn
    /\ ~isLogin
    /\ loginClicks < MaxLoginClicks
    /\ loginClicks' = loginClicks + 1
    /\ IF validateLoginForm
        THEN /\ loginRequest' = "register"
             /\ loginRequests' = loginRequests + 1
             /\ loginMessage' = "Creating account..."
        ELSE /\ loginMessage' = "Please fix the errors above"
             /\ UNCHANGED << loginRequest, loginRequests >>
    /\ UNCHANGED << artistData, isAuthenticated, homeLoading, storedArtistData,
                    urlArtistId, homeMounted, artistFetch, reloads,
                    loginFormData, isLogin,
                    mintVars, formVars, routeVars, listVars, callVars >>

\* lines 765-781: the answer to the register request; none of its outcomes
\* touches the session
RegisterCompletes(answer) ==
    /\ loginRequest = "register"
    /\ loginRequest' = "none"
    /\ loginMessage' =
            CASE answer = "ok" -> "Registration successful! You can now log in."
              [] answer = "rejected" -> "Registration failed"
              [] OTHER -> "Registration failed. Please check your connection and try again."
    \* setTimeout(..., 2000), line 769
    /\ loginTimers' = IF answer = "ok"
                        THEN loginTimers \cup {[kind |-> "register", artist |-> ""]}
                        ELSE loginTimers
    /\ UNCHANGED << artistData, isAuthenticated, homeLoading, storedArtistData,
                    urlArtistId, homeMounted, artistFetch, reloads,
                    userProjects, activeTab, currentPage, projectsFetches,
                    mintVars, formVars, routeVars, loginVars, callVars >>

\* lines 769-772: the timer of a successful registration fires
RegisterTimerFires ==
    /\ [kind |-> "register", artist |-> ""] \in loginTimers
    /\ loginTimers' = loginTimers \ {[kind |-> "register", artist |-> ""]}
    /\ isLogin' = TRUE
    \* resetLoginForm, lines 686-697
    /\ loginFormData' = EmptyLoginForm
    /\ loginMessage' = ""
    /\ UNCHANGED << artistData, isAuthenticated, homeLoading, storedArtistData,
                    urlArtistId, homeMounted, artistFetch, loginRequest, reloads,
                    loginClicks, loginRequests,
                    userProjects, activeTab, currentPage, projectsFetches,
                    mintVars, formVars, routeVars, callVars >>

\* lines 551-557, from the button of line 1029
HandleLogout ==
    /\ HomeScreen = "Authenticated"
    /\ storedArtistData' = None
    /\ artistData' = None
    /\ isAuthenticated' = FALSE
    /\ userProjects' = ProjectList(0, 0)
    /\ UNCHANGED << homeLoading, urlArtistId, homeMounted, artistFetch, loginRequest,
                    loginMessage, reloads,
                    activeTab, currentPage, projectsFetches, loginTimers,
                    mintVars, formVars, routeVars, loginVars, callVars >>

\* the page is opened again: Home is constructed anew (lines 69-98), the
\* requests and the timers of the old page are dropped, localStorage stays
Reload(url) ==
    /\ reloads < MaxReloads
    /\ reloads' = reloads + 1
    /\ urlArtistId' = url
    /\ artistData' = None
    /\ isAuthenticated' = FALSE
    /\ homeLoading' = TRUE
    /\ homeMounted' = FALSE
    /\ artistFetch' = None
    /\ loginRequest' = "none"
    /\ loginMessage' = ""
    /\ loginFormData' = EmptyLoginForm
    /\ isLogin' = TRUE
    /\ userProjects' = ProjectList(0, 0)
    /\ activeTab' = "all"
    /\ currentPage' = 1
    /\ projectsFetches' = {}
    /\ loginTimers' = {}
    /\ UNCHANGED << storedArtistData, loginClicks, loginRequests,
                    mintVars, formVars, routeVars, callVars >>

\* lines 679-684: five seconds after showLoginMessage the message is removed
LoginMessageExpires ==
    /\ loginMessage # ""
    /\ loginMessage' = ""
    /\ UNCHANGED << artistData, isAuthenticated, homeLoading, storedArtistData,
                    urlArtistId, homeMounted, artistFetch, loginRequest, reloads,
                    mintVars, formVars, routeVars,
                    loginVars, listVars, callVars >>

\* ------------------------------------------------- the project list

\* lines 217-222: filteredProjects.length
FilteredLength(list, tab) ==
    CASE tab = "approved" -> list.approved
      [] tab = "pending" -> list.pending
      [] OTHER -> list.approved + list.pending

\* line 227: Math.ceil(filteredProjects.length / projectsPerPage)
TotalPages(list, tab) ==
    (FilteredLength(list, tab) + projectsPerPage - 1) \div projectsPerPage

totalPages == TotalPages(userProjects, activeTab)

\* line 1336: the pagination controls are rendered
PaginationShown ==
    /\ HomeScreen = "Authenticated"
    /\ FilteredLength(userProjects, activeTab) > projectsPerPage

\* lines 1259-1271 with the effect of lines 231-233, which runs when activeTab
\* has changed
SetActiveTab(tab) ==
    /\ HomeScreen = "Authenticated"
    /\ activeTab' = tab
    /\ currentPage' = IF tab # activeTab THEN 1 ELSE currentPage
    /\ UNCHANGED << userProjects, projectsFetches, loginTimers,
                    mintVars, formVars, authVars, routeVars, loginVars, callVars >>

\* line 235, from the page buttons of lines 1349-1358
Paginate(pageNumber) ==
    /\ PaginationShown
    /\ pageNumber \in 1..totalPages
    /\ currentPage' = pageNumber
    /\ UNCHANGED << userProjects, activeTab, projectsFetches, loginTimers,
                    mintVars, formVars, authVars, routeVars, loginVars, callVars >>

\* lines 237-241, from the button of lines 1361-1364
NextPage ==
    /\ PaginationShown
    /\ currentPage # totalPages
    /\ currentPage' = IF currentPage < totalPages THEN currentPage + 1 ELSE currentPage
    /\ UNCHANGED << userProjects, activeTab, projectsFetches, loginTimers,
                    mintVars, formVars, authVars, routeVars, loginVars, callVars >>

\* lines 243-247, from the button of lines 1340-1343
PrevPage ==
    /\ PaginationShown
    /\ currentPage # 1
    /\ currentPage' = IF currentPage > 1 THEN currentPage - 1 ELSE currentPage
    /\ UNCHANGED << userProjects, activeTab, projectsFetches, loginTimers,
                    mintVars, formVars, authVars, routeVars, loginVars, callVars >>

\* ------------------------------------------------- the specification

InitSession ==
    /\ LoginFormInitial /\ ListInitial /\ CallsInitial
    /\ HomeInitial
    /\ storedArtistData \in StoredSamples
    /\ urlArtistId \in UrlArtistIds
    /\ reloads = 0
    /\ FormInitial
    /\ RouterInitial
    /\ MintInitial

NextSession ==
    \/ CheckAuth
    \/ \E answer \in SessionAnswers : FetchArtistDataCompletes(answer)
    \/ \E in \in LoginInputs : HandleLoginInputChange(in[1], in[2])
    \/ \E value \in MobileTexts : HandleMobileChange(value)
    \/ ToggleLoginMode
    \/ HandleLogin
    \/ \E answer \in SessionAnswers, artist \in Artists : LoginCompletes(answer, artist)
    \/ \E artist \in Artists : LoginTimerFires(artist.id)
    \/ HandleRegister
    \/ \E answer \in SessionAnswers : RegisterCompletes(answer)
    \/ RegisterTimerFires
    \/ HandleLogout
    \/ \E url \in UrlArtistIds : Reload(url)
    \/ LoginMessageExpires
    \/ \E artist \in Artists, answer \in ListAnswers :
            FetchUserProjectsCompletes(artist.id, answer)
    \/ \E tab \in {"all", "approved", "pending"} : SetActiveTab(tab)
    \/ \E pageNumber \in 1..(MaxApproved + MaxPending) : Paginate(pageNumber)
    \/ NextPage
    \/ PrevPage

SpecSession == InitSession /\ [][NextSession]_vars

\* C18: the session state of the dashboard changes to Authenticated only by
\* a successful login or by the mount effect finding a stored session, and
\* back to LoggedOut only by logout; register does not change it.
C18_AuthenticatedByLoginOrStore ==
    [][ /\ (~isAuthenticated /\ isAuthenticated') =>
                \/ loginRequest = "login" /\ loginRequest' = "none"
                \/ ~homeMounted /\ homeMounted' /\ IsSome(storedArtistData)
        /\ (isAuthenticated /\ ~isAuthenticated' /\ homeMounted') =>
                /\ HomeScreen = "Authenticated"
                /\ storedArtistData' = None ]_vars

\* the form passes every validator that applies in its mode
LoginFormPasses(form, login) ==
    /\ validateEmail(form.email) = ""
    /\ Len(form.password) >= 6
    /\ ~login => /\ Len(form.name) >= 2
                 /\ Len(form.name) <= MaxNameLength
                 /\ validateMobile(form.mobile) = ""

\* C26: a login or register request is sent only when every validator that
\* applies returns '' (login: email and a password of 6 characters or more;
\* register: also a name of 2 to 30 characters and the mobile number); a
\* click with a form that fails shows 'Please fix the errors above', sends
\* no request and leaves the session and the stored session as they are.
C26_OnlyValidFormsAreSent ==
    [][ /\ loginRequests' > loginRequests => LoginFormPasses(loginFormData, isLogin)
        /\ (loginClicks' > loginClicks /\ ~LoginFormPasses(loginFormData, isLogin)) =>
                /\ loginMessage' = "Please fix the errors above"
                /\ loginRequests' = loginRequests
                /\ loginRequest' = loginRequest
                /\ isAuthenticated' = isAuthenticated
                /\ artistData' = artistData
                /\ storedArtistData' = storedArtistData ]_vars

\* a register form was refused, then corrected and sent
C26_Witness ==
    /\ loginClicks = 2
    /\ loginRequests = 1
    /\ loginRequest = "register"
    /\ ~isLogin
    /\ Len(loginFormData.name) = 2
    /\ Len(loginFormData.password) = 6

\* C29: whenever the dashboard is LoggedOut the project list is empty: after
\* handleLogout neither an answer to a fetchUserProjects still under way nor
\* the timer of a login fills userProjects again.
C29_LoggedOutHasNoProjects ==
    HomeScreen = "LoggedOut" => userProjects = ProjectList(0, 0)

\* C30: the page shown is always one of the pages of the list:
\* 1 <= currentPage <= max(1, totalPages), with totalPages the number of
\* pages of six of the projects of the active tab, through changes of the
\* tab, the page buttons, refreshes of the list, logout and login.
C30_CurrentPageInRange ==
    /\ 1 <= currentPage
    /\ currentPage <= Max(1, totalPages)

\* the runs of handleSubmit that have sent their create-project request
CreateRequests ==
    { id \in SubmitIds :
        \/ submitCalls[id].pc = "creating"
        \/ /\ submitCalls[id].pc = "done"
           /\ submitCalls[id].outcome \in {"created", "failed"} }

====
